---- MODULE Spec2Model ----
(***************************************************************************)
(* Salesforce formula tokenizer, classifier, error detector and            *)
(* prettifier of docs/script/cfg-sfdc-tokens.js, and the click handlers of *)
(* the master table of unnamed/part_000.                                   *)
(*                                                                         *)
(* A text is a sequence of one-character strings; offsets are 0-based as   *)
(* in the source, so the character at offset p of f is f[p + 1].  A        *)
(* JavaScript value is a record [type, val]: val holds the characters of   *)
(* a string and a printed form for the other types.                        *)
(***************************************************************************)
EXTENDS Integers, Sequences, FiniteSets, TLC

VARIABLES
  entry,       \* the public function the caller invoked
  formula,     \* the JavaScript value passed as `formula`
  pc,          \* position of the call in progress
  position,    \* tokenizeFormula: the cursor
  tokens,      \* tokenizeFormula: the tokens pushed so far / its result
  classified,  \* highlightFormula: classifiedTokens
  errors,      \* highlightFormula: the result of detectFormulaErrors
  pretty,      \* the result of prettifySalesforceFormula
  once,        \* the result of the first call of prettifySalesforceFormula
  calls,       \* the calls of prettifySalesforceFormula that have returned
  clickDelay,  \* setupMasterTableClickHandlers: the parameter clickDelay
  clickTimer,  \* setupMasterTableClickHandlers: the handle of the pending timer, or null
  timers,      \* the timers the browser holds
  now,         \* the browser's clock
  trace        \* the events delivered and the callbacks invoked, in order

\* the state of the page with the master table
page == <<clickDelay, clickTimer, timers, now, trace>>

vars == <<entry, formula, pc, position, tokens, classified, errors, pretty, once, calls, page>>

----------------------------------------------------------------------------
(* Static tables.  TOKEN_TYPES.CONST is the source's TOKEN_TYPES.CONSTANT, a  *)
(* word TLA+ reserves.                                                     *)

TOKEN_TYPES ==
  [ FUNCTION |-> "function", FIELD |-> "field", NESTED_FIELD |-> "nested_field",
    CUSTOM_FUNCTION |-> "custom_function", FORMULA_FIELD |-> "formula_field",
    OPERATOR |-> "operator", STRING |-> "string", NUMBER |-> "number",
    CONST |-> "constant", PARENTHESIS |-> "parenthesis", BRACKET |-> "bracket",
    COMMA |-> "comma", WHITESPACE |-> "whitespace", IDENTIFIER |-> "identifier",
    COMMENT |-> "comment", ERROR |-> "error", DOT |-> "dot" ]

\* SF_KEYWORDS of the source (TLA+ reserves names that begin with SF_)
SfKeywords ==
  [ logical |->
      {
        <<"A","N","D">>, <<"O","R">>, <<"N","O","T">>, <<"I","F">>, <<"C","A","S","E">>,
        <<"S","W","I","T","C","H">>, <<"X","O","R">>, <<"N","A","N","D">>, <<"N","O","R">>
      },
    text |->
      {
        <<"T","E","X","T">>, <<"L","E","F","T">>, <<"R","I","G","H","T">>, <<"M","I","D">>,
        <<"L","E","N">>, <<"F","I","N","D">>, <<"S","U","B","S","T","I","T","U","T","E">>,
        <<"T","R","I","M">>, <<"U","P","P","E","R">>, <<"L","O","W","E","R">>,
        <<"P","R","O","P","E","R">>, <<"B","R">>, <<"H","Y","P","E","R","L","I","N","K">>,
        <<"I","M","A","G","E">>, <<"V","A","L","U","E">>, <<"C","O","N","T","A","I","N","S">>,
        <<"B","E","G","I","N","S">>, <<"I","N","C","L","U","D","E","S">>,
        <<"E","X","C","L","U","D","E","S">>, <<"R","E","G","E","X">>,
        <<"R","E","G","E","X","_","R","E","P","L","A","C","E">>, <<"S","P","L","I","T">>,
        <<"J","O","I","N">>, <<"R","E","P","L","A","C","E">>, <<"R","E","P","T">>,
        <<"C","L","E","A","N">>, <<"C","O","D","E">>, <<"C","H","A","R">>,
        <<"U","N","I","C","H","A","R">>, <<"U","N","I","C","O","D","E">>
      },
    math |->
      {
        <<"A","B","S">>, <<"C","E","I","L","I","N","G">>, <<"F","L","O","O","R">>,
        <<"R","O","U","N","D">>, <<"M","O","D">>, <<"M","A","X">>, <<"M","I","N">>,
        <<"S","Q","R","T">>, <<"E","X","P">>, <<"L","N">>, <<"L","O","G">>,
        <<"P","O","W","E","R">>, <<"R","A","N","D">>, <<"S","I","N">>, <<"C","O","S">>,
        <<"T","A","N">>, <<"A","S","I","N">>, <<"A","C","O","S">>, <<"A","T","A","N">>,
        <<"P","I">>, <<"D","E","G","R","E","E","S">>, <<"R","A","D","I","A","N","S">>,
        <<"S","I","G","N">>, <<"F","A","C","T">>, <<"G","C","D">>, <<"L","C","M">>
      },
    datetime |->
      {
        <<"T","O","D","A","Y">>, <<"N","O","W">>, <<"D","A","T","E">>,
        <<"D","A","T","E","T","I","M","E","V","A","L","U","E">>,
        <<"D","A","T","E","V","A","L","U","E">>, <<"Y","E","A","R">>, <<"M","O","N","T","H">>,
        <<"D","A","Y">>, <<"H","O","U","R">>, <<"M","I","N","U","T","E">>,
        <<"S","E","C","O","N","D">>, <<"W","E","E","K","D","A","Y">>,
        <<"A","D","D","M","O","N","T","H","S">>,
        <<"M","O","N","T","H","S","_","B","E","T","W","E","E","N">>,
        <<"D","A","Y","S","_","B","E","T","W","E","E","N">>,
        <<"H","O","U","R","S","_","B","E","T","W","E","E","N">>,
        <<"M","I","N","U","T","E","S","_","B","E","T","W","E","E","N">>,
        <<"S","E","C","O","N","D","S","_","B","E","T","W","E","E","N">>,
        <<"D","A","T","E","A","D","D">>, <<"D","A","T","E","D","I","F","F">>,
        <<"D","A","T","E","T","I","M","E","_","F","O","R","M","A","T">>,
        <<"T","I","M","E","V","A","L","U","E">>, <<"T","I","M","E","N","O","W">>,
        <<"T","I","M","E","T","O","N","U","M">>, <<"N","U","M","T","O","T","I","M","E">>,
        <<"C","A","L","E","N","D","A","R","_","M","O","N","T","H">>,
        <<"C","A","L","E","N","D","A","R","_","Q","U","A","R","T","E","R">>,
        <<"C","A","L","E","N","D","A","R","_","Y","E","A","R">>,
        <<"F","I","S","C","A","L","_","M","O","N","T","H">>,
        <<"F","I","S","C","A","L","_","Q","U","A","R","T","E","R">>,
        <<"F","I","S","C","A","L","_","Y","E","A","R">>
      },
    conversion |->
      {
        <<"V","A","L","U","E">>, <<"T","E","X","T">>, <<"B","L","A","N","K","V","A","L","U","E">>,
        <<"N","U","L","L","V","A","L","U","E">>, <<"C","U","R","R","E","N","C","Y">>,
        <<"N","U","M","B","E","R">>, <<"D","O","U","B","L","E">>, <<"I","N","T">>,
        <<"L","O","N","G">>, <<"I","S","N","U","L","L">>, <<"I","S","B","L","A","N","K">>,
        <<"I","S","N","U","M","B","E","R">>, <<"I","S","T","E","X","T">>,
        <<"I","S","D","A","T","E">>, <<"I","S","C","H","A","N","G","E","D">>,
        <<"P","R","I","O","R","V","A","L","U","E">>, <<"I","S","N","E","W">>,
        <<"I","S","P","I","C","K","V","A","L">>
      },
    advanced |->
      {
        <<"C","A","S","E">>, <<"S","W","I","T","C","H">>, <<"C","H","O","O","S","E">>,
        <<"C","O","A","L","E","S","C","E">>, <<"I","F","N","U","L","L">>, <<"N","V","L">>,
        <<"D","E","C","O","D","E">>, <<"G","R","E","A","T","E","S","T">>, <<"L","E","A","S","T">>,
        <<"R","A","N","K">>, <<"D","E","N","S","E","_","R","A","N","K">>,
        <<"R","O","W","_","N","U","M","B","E","R">>, <<"L","A","G">>, <<"L","E","A","D">>,
        <<"F","I","R","S","T","_","V","A","L","U","E">>,
        <<"L","A","S","T","_","V","A","L","U","E">>
      },
    constants |->
      {
        <<"T","R","U","E">>, <<"F","A","L","S","E">>, <<"N","U","L","L">>, <<"B","L","A","N","K">>,
        <<"E","M","P","T","Y">>
      }
  ]

\* Mutant of OPERATORS: the single-character lexemes declared first.
OPERATORS_SinglesFirst ==
  << <<"=">>, <<"<">>, <<">">>, <<"+">>, <<"-">>, <<"*">>, <<"/">>, <<"&">>,
     <<"<","=">>, <<">","=">>, <<"<",">">>, <<"=","=">>, <<"&","&">>, <<"|","|">> >>

\* The operator lexemes in their declared order.
OPERATORS ==
  << <<"<","=">>, <<">","=">>, <<"<",">">>, <<"=","=">>, <<"&","&">>, <<"|","|">>,
     <<"=">>, <<"<">>, <<">">>, <<"+">>, <<"-">>, <<"*">>, <<"/">>, <<"&">> >>

----------------------------------------------------------------------------
(* Character classes and string primitives of the JavaScript runtime *)

LowerLetters ==
  << "a","b","c","d","e","f","g","h","i","j","k","l","m",
     "n","o","p","q","r","s","t","u","v","w","x","y","z" >>

UpperLetters ==
  << "A","B","C","D","E","F","G","H","I","J","K","L","M",
     "N","O","P","Q","R","S","T","U","V","W","X","Y","Z" >>

Range(s) == { s[i] : i \in DOMAIN s }

LowerSet == Range(LowerLetters)

UpperSet == Range(UpperLetters)

DigitSet == { "0","1","2","3","4","5","6","7","8","9" }

\* /\s/ on the characters the inputs are drawn from
IsSpace(c) == c \in { " ", "\t", "\n", "\r" }

\* /\d/
IsDigit(c) == c \in DigitSet

\* /[a-zA-Z_]/
IsIdentStart(c) == c \in LowerSet \cup UpperSet \cup { "_" }

\* /[a-zA-Z0-9_]/
IsIdentPart(c) == IsIdentStart(c) \/ IsDigit(c)

UpperOfLetter == [ c \in LowerSet |-> UpperLetters[CHOOSE i \in 1..26 : LowerLetters[i] = c] ]

\* String.prototype.toUpperCase, character by character
UpperChar(c) == IF c \in LowerSet THEN UpperOfLetter[c] ELSE c

toUpperCase(s) == [ i \in 1..Len(s) |-> UpperChar(s[i]) ]

\* typeof v === "string"
IsString(v) == v.type = "string"

\* the truthiness of a JavaScript value (!v is its negation)
Truthy(v) ==
  CASE v.type = "string" -> v.val # <<>>
    [] v.type = "number" -> v.val \notin { <<"0">>, <<"NaN">> }
    [] v.type = "boolean" -> v.val = <<"true">>
    [] v.type \in { "undefined", "null" } -> FALSE
    [] OTHER -> TRUE

Str(s) == [ type |-> "string", val |-> s ]

Token(t, v, s, e) == [ type |-> t, value |-> v, start |-> s, end |-> e ]

----------------------------------------------------------------------------
(* tokenizeFormula: the rules of the scan loop.  Every rule yields the new *)
(* cursor and the tokens it pushes.                                        *)

RECURSIVE WhitespaceLoop(_, _, _)
WhitespaceLoop(f, pos, whitespace) ==
  IF pos < Len(f) /\ IsSpace(f[pos + 1])
  THEN WhitespaceLoop(f, pos + 1, Append(whitespace, f[pos + 1]))
  ELSE [ position |-> pos, acc |-> whitespace ]

\* Mutant of ScanWhitespace: the start is taken from the cursor after the run.
ScanWhitespace_StartAtCursor(f, pos) ==
  LET r == WhitespaceLoop(f, pos, <<>>)
  IN  [ position |-> r.position,
        push |-> << Token(TOKEN_TYPES.WHITESPACE, r.acc, r.position, r.position) >> ]

ScanWhitespace(f, pos) ==
  LET r == WhitespaceLoop(f, pos, <<>>)
  IN  [ position |-> r.position,
        push |-> << Token(TOKEN_TYPES.WHITESPACE, r.acc,
                          r.position - Len(r.acc), r.position) >> ]

\* Mutant of StringLoop: a quote of either kind ends the string.
RECURSIVE StringLoop_AnyQuote(_, _, _, _)
StringLoop_AnyQuote(f, pos, string, quote) ==
  IF pos < Len(f) /\ f[pos + 1] \notin { "\"", "'" }
  THEN IF f[pos + 1] = "\\" /\ pos + 1 < Len(f)
       THEN StringLoop_AnyQuote(f, pos + 2, string \o << f[pos + 1], f[pos + 2] >>, quote)
       ELSE StringLoop_AnyQuote(f, pos + 1, Append(string, f[pos + 1]), quote)
  ELSE [ position |-> pos, acc |-> string ]

RECURSIVE StringLoop(_, _, _, _)
StringLoop(f, pos, string, quote) ==
  IF pos < Len(f) /\ f[pos + 1] # quote
  THEN IF f[pos + 1] = "\\" /\ pos + 1 < Len(f)
       THEN StringLoop(f, pos + 2, string \o << f[pos + 1], f[pos + 2] >>, quote)
       ELSE StringLoop(f, pos + 1, Append(string, f[pos + 1]), quote)
  ELSE [ position |-> pos, acc |-> string ]

ScanString(f, pos, quote) ==
  LET r      == StringLoop(f, pos + 1, << quote >>, quote)
      closed == r.position < Len(f)
      string == IF closed THEN Append(r.acc, quote) ELSE r.acc
      p      == IF closed THEN r.position + 1 ELSE r.position
  IN  [ position |-> p,
        push |-> << Token(TOKEN_TYPES.STRING, string, p - Len(string), p) >> ]

RECURSIVE BlockCommentLoop(_, _, _)
BlockCommentLoop(f, pos, comment) ==
  IF pos < Len(f) /\ ~(f[pos + 1] = "*" /\ pos + 1 < Len(f) /\ f[pos + 2] = "/")
  THEN BlockCommentLoop(f, pos + 1, Append(comment, f[pos + 1]))
  ELSE [ position |-> pos, acc |-> comment ]

\* the block comment rule skipping a closing delimiter that is not there
ScanBlockComment_AlwaysCloses(f, pos) ==
  LET r       == BlockCommentLoop(f, pos + 2, << "/", "*" >>)
      comment == r.acc \o << "*", "/" >>
      p       == r.position + 2
  IN  [ position |-> p,
        push |-> << Token(TOKEN_TYPES.COMMENT, comment, p - Len(comment), p) >> ]

ScanBlockComment(f, pos) ==
  LET r       == BlockCommentLoop(f, pos + 2, << "/", "*" >>)
      closed  == r.position < Len(f)
      comment == IF closed THEN r.acc \o << "*", "/" >> ELSE r.acc
      p       == IF closed THEN r.position + 2 ELSE r.position
  IN  [ position |-> p,
        push |-> << Token(TOKEN_TYPES.COMMENT, comment, p - Len(comment), p) >> ]

RECURSIVE LineCommentLoop(_, _, _)
LineCommentLoop(f, pos, comment) ==
  IF pos < Len(f) /\ f[pos + 1] # "\n" /\ f[pos + 1] # "\r"
  THEN LineCommentLoop(f, pos + 1, Append(comment, f[pos + 1]))
  ELSE [ position |-> pos, acc |-> comment ]

ScanLineComment(f, pos) ==
  LET r == LineCommentLoop(f, pos + 2, << "/", "/" >>)
  IN  [ position |-> r.position,
        push |-> << Token(TOKEN_TYPES.COMMENT, r.acc,
                          r.position - Len(r.acc), r.position) >> ]

\* formula.substring(position, position + op.length) === op
OperatorAt(f, pos, op) ==
  /\ pos + Len(op) <= Len(f)
  /\ SubSeq(f, pos + 1, pos + Len(op)) = op

\* the index in OPERATORS of the first lexeme that matches at pos; 0 if none does
MatchOperator(f, pos) ==
  LET hits == { i \in DOMAIN OPERATORS : OperatorAt(f, pos, OPERATORS[i]) }
  IN  IF hits = {} THEN 0 ELSE CHOOSE i \in hits : \A j \in hits : i <= j

ScanOperator(f, pos) ==
  LET op == OPERATORS[MatchOperator(f, pos)]
  IN  [ position |-> pos + Len(op),
        push |-> << Token(TOKEN_TYPES.OPERATOR, op, pos, pos + Len(op)) >> ]

\* while (tempPosition < length && /\s/.test(formula[tempPosition])) tempPosition++
RECURSIVE SkipSpace(_, _)
SkipSpace(f, temp) ==
  IF temp < Len(f) /\ IsSpace(f[temp + 1]) THEN SkipSpace(f, temp + 1) ELSE temp

BracketStep(c, bracketCount) ==
  IF c = "[" THEN bracketCount + 1
  ELSE IF c = "]" THEN bracketCount - 1
  ELSE bracketCount

\* the look-ahead extraction of one bracket-balanced field
RECURSIVE ExtractField(_, _, _, _)
ExtractField(f, temp, bracketCount, field) ==
  IF temp < Len(f) /\ bracketCount >= 0
  THEN LET c  == f[temp + 1]
           bc == BracketStep(c, bracketCount)
       IN  IF bc = 0
           THEN [ position |-> temp + 1, acc |-> Append(field, c) ]
           ELSE ExtractField(f, temp + 1, bc, Append(field, c))
  ELSE [ position |-> temp, acc |-> field ]

\* Mutant of ExtendNested: the whitespace before the dot is not skipped.
RECURSIVE ExtendNested_NoSkip(_, _, _, _)
ExtendNested_NoSkip(f, temp, fullNestedField, isNestedPattern) ==
  IF temp < Len(f)
  THEN IF f[temp + 1] = "."
       THEN LET t2 == SkipSpace(f, temp + 1)
            IN  IF t2 < Len(f) /\ f[t2 + 1] = "["
                THEN LET r == ExtractField(f, t2, 0, <<>>)
                     IN  ExtendNested_NoSkip(f, r.position,
                                             fullNestedField \o << "." >> \o r.acc, TRUE)
                ELSE [ position |-> t2, acc |-> fullNestedField,
                       isNestedPattern |-> isNestedPattern ]
       ELSE [ position |-> temp, acc |-> fullNestedField,
              isNestedPattern |-> isNestedPattern ]
  ELSE [ position |-> temp, acc |-> fullNestedField,
         isNestedPattern |-> isNestedPattern ]

\* the loop that joins further .[field] parts
RECURSIVE ExtendNested(_, _, _, _)
ExtendNested(f, temp, fullNestedField, isNestedPattern) ==
  IF temp < Len(f)
  THEN LET t1 == SkipSpace(f, temp)
       IN  IF t1 < Len(f) /\ f[t1 + 1] = "."
           THEN LET t2 == SkipSpace(f, t1 + 1)
                IN  IF t2 < Len(f) /\ f[t2 + 1] = "["
                    THEN LET r == ExtractField(f, t2, 0, <<>>)
                         IN  ExtendNested(f, r.position,
                                          fullNestedField \o << "." >> \o r.acc, TRUE)
                    ELSE [ position |-> t2, acc |-> fullNestedField,
                           isNestedPattern |-> isNestedPattern ]
           ELSE [ position |-> t1, acc |-> fullNestedField,
                  isNestedPattern |-> isNestedPattern ]
  ELSE [ position |-> temp, acc |-> fullNestedField,
         isNestedPattern |-> isNestedPattern ]

\* the extraction of a regular field reference
RECURSIVE RegularFieldLoop(_, _, _, _)
RegularFieldLoop(f, pos, bracketCount, field) ==
  IF pos < Len(f) /\ bracketCount > 0
  THEN RegularFieldLoop(f, pos + 1, BracketStep(f[pos + 1], bracketCount),
                        Append(field, f[pos + 1]))
  ELSE [ position |-> pos, acc |-> field ]

\* field.includes(".")
Includes(s, c) == \E i \in DOMAIN s : s[i] = c

ScanField(f, pos) ==
  LET first  == ExtractField(f, pos, 0, <<>>)
      nested == ExtendNested(f, first.position, first.acc, FALSE)
      r      == RegularFieldLoop(f, pos + 1, 1, << "[" >>)
      type   == IF Includes(r.acc, ".")
                THEN TOKEN_TYPES.NESTED_FIELD ELSE TOKEN_TYPES.FIELD
  IN  IF nested.isNestedPattern
      THEN [ position |-> nested.position,
             push |-> << Token(TOKEN_TYPES.NESTED_FIELD, nested.acc,
                               pos, nested.position) >> ]
      ELSE [ position |-> r.position,
             push |-> << Token(type, r.acc, r.position - Len(r.acc), r.position) >> ]

\* parentheses and commas
ScanSingle(f, pos, type) ==
  [ position |-> pos + 1, push |-> << Token(type, << f[pos + 1] >>, pos, pos + 1) >> ]

RECURSIVE NumberLoop(_, _, _)
NumberLoop(f, pos, number) ==
  IF pos < Len(f) /\ (IsDigit(f[pos + 1]) \/ f[pos + 1] = ".")
  THEN NumberLoop(f, pos + 1, Append(number, f[pos + 1]))
  ELSE [ position |-> pos, acc |-> number ]

ScanNumber(f, pos) ==
  LET r == NumberLoop(f, pos, <<>>)
  IN  [ position |-> r.position,
        push |-> << Token(TOKEN_TYPES.NUMBER, r.acc,
                          r.position - Len(r.acc), r.position) >> ]

\* the dot is taken for a part of a nested field reference
IsPartOfNestedField(f, pos, toks) ==
  /\ Len(toks) > 0
  /\ toks[Len(toks)].type \in { TOKEN_TYPES.FIELD, TOKEN_TYPES.NESTED_FIELD }
  /\ LET temp == SkipSpace(f, pos + 1)
     IN  temp < Len(f) /\ f[temp + 1] = "["

ScanDot(f, pos, toks) ==
  [ position |-> pos + 1,
    push |-> IF ~IsPartOfNestedField(f, pos, toks)
             THEN << Token(TOKEN_TYPES.DOT, << f[pos + 1] >>, pos, pos + 1) >>
             ELSE <<>> ]

RECURSIVE IdentifierLoop(_, _, _)
IdentifierLoop(f, pos, identifier) ==
  IF pos < Len(f) /\ IsIdentPart(f[pos + 1])
  THEN IdentifierLoop(f, pos + 1, Append(identifier, f[pos + 1]))
  ELSE [ position |-> pos, acc |-> identifier ]

ScanIdentifier(f, pos) ==
  LET r == IdentifierLoop(f, pos, <<>>)
  IN  [ position |-> r.position,
        push |-> << Token(TOKEN_TYPES.IDENTIFIER, r.acc,
                          r.position - Len(r.acc), r.position) >> ]

\* Mutant of ScanOther: a bracket that no other rule has taken becomes a token of
\* type bracket.
ScanOther_BracketKind(f, pos) ==
  ScanSingle(f, pos, IF f[pos + 1] \in { "[", "]" } THEN TOKEN_TYPES.BRACKET
                     ELSE TOKEN_TYPES.IDENTIFIER)

\* any other character
ScanOther(f, pos) == ScanSingle(f, pos, TOKEN_TYPES.IDENTIFIER)

\* the first rule of the loop body whose condition holds at the cursor
Rule(f, pos) ==
  LET char == f[pos + 1]
  IN  CASE IsSpace(char) -> "whitespace"
        [] char = "\"" -> "string2"
        [] char = "'" -> "string1"
        [] char = "/" /\ pos + 1 < Len(f) /\ f[pos + 2] = "*" -> "blockComment"
        [] char = "/" /\ pos + 1 < Len(f) /\ f[pos + 2] = "/" -> "lineComment"
        [] MatchOperator(f, pos) # 0 -> "operator"
        [] char = "[" -> "field"
        [] char \in { "(", ")" } -> "parenthesis"
        [] char = "," -> "comma"
        [] IsDigit(char) -> "number"
        [] char = "." -> "dot"
        [] IsIdentStart(char) -> "identifier"
        [] OTHER -> "other"

\* one iteration of the scan loop
ScanStep(f, pos, toks) ==
  LET rule == Rule(f, pos)
  IN  CASE rule = "whitespace" -> ScanWhitespace(f, pos)
        [] rule = "string2" -> ScanString(f, pos, "\"")
        [] rule = "string1" -> ScanString(f, pos, "'")
        [] rule = "blockComment" -> ScanBlockComment(f, pos)
        [] rule = "lineComment" -> ScanLineComment(f, pos)
        [] rule = "operator" -> ScanOperator(f, pos)
        [] rule = "field" -> ScanField(f, pos)
        [] rule = "parenthesis" -> ScanSingle(f, pos, TOKEN_TYPES.PARENTHESIS)
        [] rule = "comma" -> ScanSingle(f, pos, TOKEN_TYPES.COMMA)
        [] rule = "number" -> ScanNumber(f, pos)
        [] rule = "dot" -> ScanDot(f, pos, toks)
        [] rule = "identifier" -> ScanIdentifier(f, pos)
        [] OTHER -> ScanOther(f, pos)

RECURSIVE ScanLoop(_, _, _)
ScanLoop(f, pos, toks) ==
  IF pos < Len(f)
  THEN LET r == ScanStep(f, pos, toks) IN ScanLoop(f, r.position, toks \o r.push)
  ELSE toks

\* Mutant of tokenizeFormula: the guard is missing and the value is read as text.
tokenizeFormula_NoGuard(v) == ScanLoop(v.val, 0, <<>>)

tokenizeFormula(v) ==
  IF ~Truthy(v) \/ ~IsString(v) THEN <<>> ELSE ScanLoop(v.val, 0, <<>>)

----------------------------------------------------------------------------
(* classifyTokens *)

\* the function names classifyTokens and detectFormulaErrors know
allFunctions ==
  SfKeywords.logical \cup SfKeywords.text \cup SfKeywords.math
    \cup SfKeywords.datetime \cup SfKeywords.conversion \cup SfKeywords.advanced

\* Mutant of FollowedByOpenParen: function tokens are skipped like whitespace.
RECURSIVE FollowedByOpenParen_SkipsFunctions(_, _)
FollowedByOpenParen_SkipsFunctions(toks, i) ==
  IF i > Len(toks) THEN FALSE
  ELSE IF toks[i].type \in { TOKEN_TYPES.WHITESPACE, TOKEN_TYPES.FUNCTION }
  THEN FollowedByOpenParen_SkipsFunctions(toks, i + 1)
  ELSE toks[i].type = TOKEN_TYPES.PARENTHESIS /\ toks[i].value = << "(" >>

\* the look-ahead loop: the first token after index that is no whitespace is "("
RECURSIVE FollowedByOpenParen(_, _)
FollowedByOpenParen(toks, i) ==
  IF i > Len(toks) THEN FALSE
  ELSE IF toks[i].type = TOKEN_TYPES.WHITESPACE THEN FollowedByOpenParen(toks, i + 1)
  ELSE toks[i].type = TOKEN_TYPES.PARENTHESIS /\ toks[i].value = << "(" >>

\* /^[a-z]/
StartsLower(s) == Len(s) > 0 /\ s[1] \in LowerSet

\* /^[A-Z]/
StartsUpper(s) == Len(s) > 0 /\ s[1] \in UpperSet

\* /^[A-Z][a-zA-Z0-9_]*$/
LooksLikeFieldName(s) == StartsUpper(s) /\ \A i \in 2..Len(s) : IsIdentPart(s[i])

\* Mutant of classifyIdentifier: the custom-function rule does not look at the
\* case of the first character.
classifyIdentifier_AnyCase(toks, index) ==
  LET token      == toks[index]
      upperValue == toUpperCase(token.value)
  IN  IF upperValue \in allFunctions
      THEN [ token EXCEPT !.type = TOKEN_TYPES.FUNCTION, !.value = upperValue ]
      ELSE IF upperValue \in SfKeywords.constants
      THEN [ token EXCEPT !.type = TOKEN_TYPES.CONST, !.value = upperValue ]
      ELSE IF FollowedByOpenParen(toks, index + 1)
      THEN [ token EXCEPT !.type = TOKEN_TYPES.CUSTOM_FUNCTION ]
      ELSE IF Includes(token.value, "_") /\ LooksLikeFieldName(token.value)
      THEN [ token EXCEPT !.type = TOKEN_TYPES.FORMULA_FIELD ]
      ELSE token

\* the rewrite rules for a token of type identifier; index is 1-based here
classifyIdentifier(toks, index) ==
  LET token      == toks[index]
      upperValue == toUpperCase(token.value)
  IN  IF upperValue \in allFunctions
      THEN [ token EXCEPT !.type = TOKEN_TYPES.FUNCTION, !.value = upperValue ]
      ELSE IF upperValue \in SfKeywords.constants
      THEN [ token EXCEPT !.type = TOKEN_TYPES.CONST, !.value = upperValue ]
      ELSE IF StartsLower(token.value) /\ FollowedByOpenParen(toks, index + 1)
      THEN [ token EXCEPT !.type = TOKEN_TYPES.CUSTOM_FUNCTION ]
      ELSE IF Includes(token.value, "_") /\ LooksLikeFieldName(token.value)
      THEN [ token EXCEPT !.type = TOKEN_TYPES.FORMULA_FIELD ]
      ELSE token

\* Mutant of classifyToken: the type of the token is not looked at.
classifyToken_AnyType(toks, index) == classifyIdentifier(toks, index)

\* the callback of tokens.map
classifyToken(toks, index) ==
  IF toks[index].type = TOKEN_TYPES.IDENTIFIER
  THEN classifyIdentifier(toks, index)
  ELSE toks[index]

classifyTokens(toks) == [ index \in 1..Len(toks) |-> classifyToken(toks, index) ]

----------------------------------------------------------------------------
(* detectFormulaErrors and markErrorTokens *)

\* String(n) for a natural number
RECURSIVE DecimalString(_)
DecimalString(n) ==
  LET digit == << "0","1","2","3","4","5","6","7","8","9" >>[(n % 10) + 1]
  IN  IF n < 10 THEN << digit >> ELSE Append(DecimalString(n \div 10), digit)

\* Mutant of ClosingParenError: the error is positioned at the end of the token.
ClosingParenError_AtEnd(token) ==
  [ position |-> token.end, message |-> << "Unmatched closing parenthesis" >>,
    type |-> "syntax" ]

\* an error message is kept as the pieces the source concatenates
ClosingParenError(token) ==
  [ position |-> token.start, message |-> << "Unmatched closing parenthesis" >>,
    type |-> "syntax" ]

ClosingBracketError(token) ==
  [ position |-> token.start, message |-> << "Unmatched closing bracket" >>,
    type |-> "syntax" ]

InvalidFunctionError(token) ==
  [ position |-> token.start, message |-> << "Invalid function: " >> \o token.value,
    type |-> "function" ]

OpeningParenError(f, openParens) ==
  [ position |-> Len(f) - 1,
    message |-> DecimalString(openParens) \o << " unmatched opening parenthesis" >>
                  \o (IF openParens > 1 THEN << "es" >> ELSE <<>>),
    type |-> "syntax" ]

OpeningBracketError(f, openBrackets) ==
  [ position |-> Len(f) - 1,
    message |-> DecimalString(openBrackets) \o << " unmatched opening bracket" >>
                  \o (IF openBrackets > 1 THEN << "s" >> ELSE <<>>),
    type |-> "syntax" ]

\* Mutant of DetectStep: the depth is set back to zero after an unmatched closing
\* parenthesis.
DetectStep_ResetsDepth(toks, i, st) ==
  LET token == toks[i]
      isOpen  == token.type = TOKEN_TYPES.PARENTHESIS /\ token.value = << "(" >>
      isClose == token.type = TOKEN_TYPES.PARENTHESIS /\ token.value = << ")" >>
      parens  == IF isOpen THEN st.openParens + 1
                 ELSE IF isClose THEN st.openParens - 1 ELSE st.openParens
      e1      == IF isClose /\ parens < 0 THEN << ClosingParenError(token) >> ELSE <<>>
      bOpen   == token.type = TOKEN_TYPES.BRACKET /\ token.value = << "[" >>
      bClose  == token.type = TOKEN_TYPES.BRACKET /\ token.value = << "]" >>
      brackets == IF bOpen THEN st.openBrackets + 1
                  ELSE IF bClose THEN st.openBrackets - 1 ELSE st.openBrackets
      e2      == IF bClose /\ brackets < 0 THEN << ClosingBracketError(token) >> ELSE <<>>
      e3      == IF /\ token.type = TOKEN_TYPES.IDENTIFIER
                    /\ FollowedByOpenParen(toks, i + 1)
                    /\ toUpperCase(token.value) \notin allFunctions
                    /\ StartsUpper(token.value)
                 THEN << InvalidFunctionError(token) >> ELSE <<>>
  IN  [ openParens |-> IF parens < 0 THEN 0 ELSE parens, openBrackets |-> brackets,
        errors |-> st.errors \o e1 \o e2 \o e3 ]

\* Mutant of DetectStep: the case of the first character is not looked at.
DetectStep_AnyCase(toks, i, st) ==
  LET token == toks[i]
      isOpen  == token.type = TOKEN_TYPES.PARENTHESIS /\ token.value = << "(" >>
      isClose == token.type = TOKEN_TYPES.PARENTHESIS /\ token.value = << ")" >>
      parens  == IF isOpen THEN st.openParens + 1
                 ELSE IF isClose THEN st.openParens - 1 ELSE st.openParens
      e1      == IF isClose /\ parens < 0 THEN << ClosingParenError(token) >> ELSE <<>>
      bOpen   == token.type = TOKEN_TYPES.BRACKET /\ token.value = << "[" >>
      bClose  == token.type = TOKEN_TYPES.BRACKET /\ token.value = << "]" >>
      brackets == IF bOpen THEN st.openBrackets + 1
                  ELSE IF bClose THEN st.openBrackets - 1 ELSE st.openBrackets
      e2      == IF bClose /\ brackets < 0 THEN << ClosingBracketError(token) >> ELSE <<>>
      e3      == IF /\ token.type = TOKEN_TYPES.IDENTIFIER
                    /\ FollowedByOpenParen(toks, i + 1)
                    /\ toUpperCase(token.value) \notin allFunctions
                 THEN << InvalidFunctionError(token) >> ELSE <<>>
  IN  [ openParens |-> parens, openBrackets |-> brackets,
        errors |-> st.errors \o e1 \o e2 \o e3 ]

\* the body of the for loop over the tokens, for token i
DetectStep(toks, i, st) ==
  LET token == toks[i]
      isOpen  == token.type = TOKEN_TYPES.PARENTHESIS /\ token.value = << "(" >>
      isClose == token.type = TOKEN_TYPES.PARENTHESIS /\ token.value = << ")" >>
      parens  == IF isOpen THEN st.openParens + 1
                 ELSE IF isClose THEN st.openParens - 1 ELSE st.openParens
      e1      == IF isClose /\ parens < 0 THEN << ClosingParenError(token) >> ELSE <<>>
      bOpen   == token.type = TOKEN_TYPES.BRACKET /\ token.value = << "[" >>
      bClose  == token.type = TOKEN_TYPES.BRACKET /\ token.value = << "]" >>
      brackets == IF bOpen THEN st.openBrackets + 1
                  ELSE IF bClose THEN st.openBrackets - 1 ELSE st.openBrackets
      e2      == IF bClose /\ brackets < 0 THEN << ClosingBracketError(token) >> ELSE <<>>
      e3      == IF /\ token.type = TOKEN_TYPES.IDENTIFIER
                    /\ FollowedByOpenParen(toks, i + 1)
                    /\ toUpperCase(token.value) \notin allFunctions
                    /\ StartsUpper(token.value)
                 THEN << InvalidFunctionError(token) >> ELSE <<>>
  IN  [ openParens |-> parens, openBrackets |-> brackets,
        errors |-> st.errors \o e1 \o e2 \o e3 ]

RECURSIVE DetectLoop(_, _, _)
DetectLoop(toks, i, st) ==
  IF i <= Len(toks) THEN DetectLoop(toks, i + 1, DetectStep(toks, i, st)) ELSE st

\* Mutant of detectFormulaErrors: a single opening left open is not reported.
detectFormulaErrors_SeveralOnly(v) ==
  IF ~Truthy(v) \/ ~IsString(v) THEN <<>>
  ELSE LET toks == tokenizeFormula(v)
           st   == DetectLoop(toks, 1,
                     [ openParens |-> 0, openBrackets |-> 0, errors |-> <<>> ])
       IN  st.errors
             \o (IF st.openParens > 1
                 THEN << OpeningParenError(v.val, st.openParens) >> ELSE <<>>)
             \o (IF st.openBrackets > 0
                 THEN << OpeningBracketError(v.val, st.openBrackets) >> ELSE <<>>)

detectFormulaErrors(v) ==
  IF ~Truthy(v) \/ ~IsString(v) THEN <<>>
  ELSE LET toks == tokenizeFormula(v)
           st   == DetectLoop(toks, 1,
                     [ openParens |-> 0, openBrackets |-> 0, errors |-> <<>> ])
       IN  st.errors
             \o (IF st.openParens > 0
                 THEN << OpeningParenError(v.val, st.openParens) >> ELSE <<>>)
             \o (IF st.openBrackets > 0
                 THEN << OpeningBracketError(v.val, st.openBrackets) >> ELSE <<>>)

\* Mutant of markErrorTokens: the end of a token is looked up as well.
markErrorTokens_EndToo(toks, errs) ==
  LET errorPositions == { errs[i].position : i \in DOMAIN errs }
  IN  [ i \in 1..Len(toks) |->
          IF \/ toks[i].start \in errorPositions
             \/ (toks[i].end - 1) \in errorPositions
             \/ toks[i].end \in errorPositions
          THEN [ toks[i] EXCEPT !.type = TOKEN_TYPES.ERROR ]
          ELSE toks[i] ]

\* Mutant of markErrorTokens: only the start of a token is looked up.
markErrorTokens_StartOnly(toks, errs) ==
  LET errorPositions == { errs[i].position : i \in DOMAIN errs }
  IN  [ i \in 1..Len(toks) |->
          IF toks[i].start \in errorPositions
          THEN [ toks[i] EXCEPT !.type = TOKEN_TYPES.ERROR ]
          ELSE toks[i] ]

markErrorTokens(toks, errs) ==
  LET errorPositions == { errs[i].position : i \in DOMAIN errs }
  IN  [ i \in 1..Len(toks) |->
          IF toks[i].start \in errorPositions \/ (toks[i].end - 1) \in errorPositions
          THEN [ toks[i] EXCEPT !.type = TOKEN_TYPES.ERROR ]
          ELSE toks[i] ]

----------------------------------------------------------------------------
(* prettifySalesforceFormula.  A global regular-expression replace is      *)
(* modelled by the left-to-right scan the regular-expression engine makes. *)

\* [ \t]
IsBlank(c) == c \in { " ", "\t" }

RECURSIVE TrimStart(_)
TrimStart(s) == IF s # <<>> /\ IsSpace(s[1]) THEN TrimStart(Tail(s)) ELSE s

RECURSIVE TrimEnd(_)
TrimEnd(s) ==
  IF s # <<>> /\ IsSpace(s[Len(s)]) THEN TrimEnd(SubSeq(s, 1, Len(s) - 1)) ELSE s

\* String.prototype.trim
Trim(s) == TrimEnd(TrimStart(s))

RECURSIVE SkipBlank(_, _)
SkipBlank(s, i) == IF i < Len(s) /\ IsBlank(s[i + 1]) THEN SkipBlank(s, i + 1) ELSE i

\* s.replace(/pat/g, rep) for a literal pat
RECURSIVE ReplaceLiteralFrom(_, _, _, _, _)
ReplaceLiteralFrom(s, i, pat, rep, out) ==
  IF i >= Len(s) THEN out
  ELSE IF i + Len(pat) <= Len(s) /\ SubSeq(s, i + 1, i + Len(pat)) = pat
  THEN ReplaceLiteralFrom(s, i + Len(pat), pat, rep, out \o rep)
  ELSE ReplaceLiteralFrom(s, i + 1, pat, rep, Append(out, s[i + 1]))

ReplaceLiteral(s, pat, rep) == ReplaceLiteralFrom(s, 0, pat, rep, <<>>)

\* s.replace(/[ \t]*c[ \t]*/g, before + c + after) for the characters c of cs
RECURSIVE ReplaceAroundFrom(_, _, _, _, _, _)
ReplaceAroundFrom(s, i, cs, before, after, out) ==
  IF i >= Len(s) THEN out
  ELSE LET j == SkipBlank(s, i)
       IN  IF j < Len(s) /\ s[j + 1] \in cs
           THEN ReplaceAroundFrom(s, SkipBlank(s, j + 1), cs, before, after,
                                  out \o before \o << s[j + 1] >> \o after)
           ELSE ReplaceAroundFrom(s, i + 1, cs, before, after, Append(out, s[i + 1]))

ReplaceAround(s, cs, before, after) == ReplaceAroundFrom(s, 0, cs, before, after, <<>>)

\* s.replace(/[ \t]+/g, " ")
RECURSIVE CollapseFrom(_, _, _)
CollapseFrom(s, i, out) ==
  IF i >= Len(s) THEN out
  ELSE IF IsBlank(s[i + 1]) THEN CollapseFrom(s, SkipBlank(s, i), Append(out, " "))
  ELSE CollapseFrom(s, i + 1, Append(out, s[i + 1]))

\* Mutant of CollapseBlanks: runs of blanks are left as they are.
CollapseBlanks_KeepsRuns(s) == s

CollapseBlanks(s) == CollapseFrom(s, 0, <<>>)

\* s.replace(/a[ \t]*b/g, rep)
RECURSIVE ReplaceSplitFrom(_, _, _, _, _, _)
ReplaceSplitFrom(s, i, a, b, rep, out) ==
  IF i >= Len(s) THEN out
  ELSE LET j == SkipBlank(s, i + 1)
       IN  IF s[i + 1] = a /\ j < Len(s) /\ s[j + 1] = b
           THEN ReplaceSplitFrom(s, j + 1, a, b, rep, out \o rep)
           ELSE ReplaceSplitFrom(s, i + 1, a, b, rep, Append(out, s[i + 1]))

ReplaceSplit(s, a, b, rep) == ReplaceSplitFrom(s, 0, a, b, rep, <<>>)

RECURSIVE WordEnd(_, _)
WordEnd(s, i) == IF i < Len(s) /\ IsIdentPart(s[i + 1]) THEN WordEnd(s, i + 1) ELSE i

\* names.forEach(n => s = s.replace(new RegExp(`\\b${n}\\b`, "gi"), n.toUpperCase())):
\* every name is made of word characters, so a match is a maximal run of word
\* characters whose upper-case form is the name
RECURSIVE CapitalizeFrom(_, _, _, _)
CapitalizeFrom(s, i, names, out) ==
  IF i >= Len(s) THEN out
  ELSE IF IsIdentPart(s[i + 1])
  THEN LET j == WordEnd(s, i)
           w == SubSeq(s, i + 1, j)
       IN  CapitalizeFrom(s, j, names,
                          out \o (IF toUpperCase(w) \in names THEN toUpperCase(w) ELSE w))
  ELSE CapitalizeFrom(s, i + 1, names, Append(out, s[i + 1]))

Capitalize(s, names) == CapitalizeFrom(s, 0, names, <<>>)

\* the pattern and the replacement of each entry of multiCharOps, in order
multiCharOps ==
  << [ pattern |-> << "<", "=" >>,
       replacement |-> << "_","_","_","L","E","S","S","_","E","Q","U","A","L","_","_","_" >> ],
     [ pattern |-> << ">", "=" >>,
       replacement |-> << "_","_","_","G","R","E","A","T","E","R","_",
                          "E","Q","U","A","L","_","_","_" >> ],
     [ pattern |-> << "<", ">" >>,
       replacement |-> << "_","_","_","N","O","T","_","E","Q","U","A","L","_","_","_" >> ],
     [ pattern |-> << "=", "=" >>,
       replacement |-> << "_","_","_","E","Q","U","A","L","_",
                          "E","Q","U","A","L","_","_","_" >> ],
     [ pattern |-> << "&", "&" >>,
       replacement |-> << "_","_","_","A","N","D","_","_","_" >> ],
     [ pattern |-> << "|", "|" >>,
       replacement |-> << "_","_","_","O","R","_","_","_" >> ] >>

\* " op "
Spaced(op) == << " " >> \o op \o << " " >>

\* Step 1: protect the multi-character operators
RECURSIVE ProtectOps(_, _)
ProtectOps(s, k) ==
  IF k > Len(multiCharOps) THEN s
  ELSE ProtectOps(ReplaceLiteral(s, multiCharOps[k].pattern, multiCharOps[k].replacement),
                  k + 1)

\* the single-character operators of step 2, in the order of the replace chain
singleCharOps == << "=", ">", "<", "+", "-", "*", "/" >>

RECURSIVE SpaceSingleOps(_, _)
SpaceSingleOps(s, k) ==
  IF k > Len(singleCharOps) THEN s
  ELSE SpaceSingleOps(ReplaceAround(s, { singleCharOps[k] }, << " " >>, << " " >>), k + 1)

\* Step 5, first half: the placeholders back to their spaced operators
RECURSIVE RestoreOps(_, _)
RestoreOps(s, k) ==
  IF k > Len(multiCharOps) THEN s
  ELSE RestoreOps(ReplaceLiteral(s, multiCharOps[k].replacement,
                                 Spaced(multiCharOps[k].pattern)), k + 1)

\* Step 5, second half: the operators split by step 2, in the order of the chain
splitOps ==
  << << ">", "=" >>, << "<", "=" >>, << "<", ">" >>,
     << "=", "=" >>, << "&", "&" >>, << "|", "|" >> >>

RECURSIVE FixSplitOps(_, _)
FixSplitOps(s, k) ==
  IF k > Len(splitOps) THEN s
  ELSE FixSplitOps(ReplaceSplit(s, splitOps[k][1], splitOps[k][2], Spaced(splitOps[k])),
                   k + 1)

\* the function names prettifySalesforceFormula capitalises
prettifyFunctions ==
  SfKeywords.logical \cup SfKeywords.text \cup SfKeywords.math
    \cup SfKeywords.datetime \cup SfKeywords.conversion

\* the final spacing around parentheses
SpaceParens(s) ==
  Trim(CollapseBlanks(
    ReplaceAround(ReplaceAround(s, { "(" }, << " " >>, <<>>), { ")" }, <<>>, << " " >>)))

----------------------------------------------------------------------------
(* The inputs the calls are made with *)

MaxLen == 3

MaxChain == 2

MaxTail == 3

MaxWords == 3

MaxLexLen == 4

MaxCallerTokens == 3

SeqsUpTo(A, n) == UNION { [ 1..k -> A ] : k \in 0..n }

RECURSIVE Flatten(_)
Flatten(ws) == IF ws = <<>> THEN <<>> ELSE Head(ws) \o Flatten(Tail(ws))

\* texts of operator characters
OpAlphabet == { "<", "=", ">", "&", "|", "+", "-", "*", "/", "a", " " }

OpTexts == SeqsUpTo(OpAlphabet, MaxLen)

\* texts of quotes, escapes and comment delimiters
LexAlphabet == { "\"", "'", "\\", "x", "/", "*", "\n" }

LexTexts == SeqsUpTo(LexAlphabet, MaxLexLen)

\* chains of bracketed fields: the text, the fields joined by single dots, the
\* first field and the number of fields
ChainFields == { << "[", "a", "]" >>, << "[", "a", ".", "b", "]" >> }

ChainSeps == { << "." >>, << " ", "." >>, << ".", " " >>, << " ", ".", " " >> }

RECURSIVE ChainsOfLen(_)
ChainsOfLen(k) ==
  IF k = 1
  THEN { [ text |-> fld, joined |-> fld, first |-> fld, n |-> 1 ] : fld \in ChainFields }
  ELSE { [ text |-> c.text \o sep \o fld, joined |-> c.joined \o << "." >> \o fld,
           first |-> c.first, n |-> k ] :
         c \in ChainsOfLen(k - 1), sep \in ChainSeps, fld \in ChainFields }

Chains == UNION { ChainsOfLen(k) : k \in 1..MaxChain }

TailAlphabet == { ".", " ", "[" }

Tails == SeqsUpTo(TailAlphabet, MaxTail)

ChainTexts == { c.text \o t : c \in Chains, t \in Tails }

\* texts of words, parentheses, commas and blanks
Words ==
  { << "i", "f" >>, << "T", "r", "u", "e" >>, << "m", "y", "F", "u", "n", "c" >>,
    << "F", "O", "O" >>, << "c", "a", "s", "e" >>, << "_" >>,
    << "(" >>, << ")" >>, << " " >>, << "," >>, << "1" >> }

WordTexts == { Flatten(ws) : ws \in SeqsUpTo(Words, MaxWords) }


\* texts of parentheses next to the delimiters of strings, fields and comments
ParenAlphabet == { "(", ")", "\"", "[", "]", "/" }

ParenTexts == SeqsUpTo(ParenAlphabet, MaxLexLen)

\* texts of parentheses, commas, blanks and line breaks
PunctAlphabet == { "(", ")", ",", "\n", " ", "a" }

PunctTexts == SeqsUpTo(PunctAlphabet, MaxLen)

\* names of the keyword tables and other names, in several spellings
KeywordSpellings ==
  { << "i", "f" >>, << "i", "F" >>, << "I", "F" >>,
    << "n", "v", "l" >>, << "N", "v", "l" >>, << "N", "V", "L" >>,
    << "n", "u", "l", "l" >>, << "N", "u", "l", "l" >>,
    << "f", "o", "o" >>, << "F", "o", "o" >> }

\* what stands in front of a name or after it
Affixes == { <<>>, << " " >>, << "(" >>, << " ", "(" >>, << "_" >>, << "a" >>, << "=" >> }

KeywordTexts == { p \o w \o s : p \in Affixes, w \in KeywordSpellings, s \in Affixes }
\* the formulas the documentation gives as examples
ExampleTexts ==
  {
    \* if(true,1,2)
    << "i", "f", "(", "t", "r", "u", "e", ",", "1", ",", "2", ")" >>,
    \* myFunc(1)
    << "m", "y", "F", "u", "n", "c", "(", "1", ")" >>,
    \* IF(1,2,3
    << "I", "F", "(", "1", ",", "2", ",", "3" >>,
    \* IF(1,2,3))
    << "I", "F", "(", "1", ",", "2", ",", "3", ")", ")" >>,
    \* FOO(1)
    << "F", "O", "O", "(", "1", ")" >>,
    \* [Account].[Owner].[Name]
    << "[", "A", "c", "c", "o", "u", "n", "t", "]", ".", "[", "O", "w", "n", "e", "r", "]", ".", "[", "N", "a", "m", "e", "]" >>,
    \* [Account.Name]
    << "[", "A", "c", "c", "o", "u", "n", "t", ".", "N", "a", "m", "e", "]" >>,
    \* [Name]
    << "[", "N", "a", "m", "e", "]" >>,
    \* <=
    << "<", "=" >>,
    \* if(a=1,true,false)
    << "i", "f", "(", "a", "=", "1", ",", "t", "r", "u", "e", ",", "f", "a", "l", "s", "e", ")" >>
  }

----------------------------------------------------------------------------
(* The click handlers of the master table: setupMasterTableClickHandlers.  *)
(* Time is counted in ticks of the browser's clock; a timer is a record    *)
(* [id, due, identifier] the browser holds until it runs or is cleared.    *)

MaxDelay == 2

MaxTime == 3

MaxEvents == 3

\* let clickTimer = null; a timer handle is a positive integer
null == 0

Undefined == [ type |-> "undefined", val |-> <<>> ]

\* values that are no non-empty string
MalformedInputs ==
  { Undefined, [ type |-> "null", val |-> <<>> ], [ type |-> "number", val |-> << "0" >> ],
    [ type |-> "number", val |-> << "7" >> ], [ type |-> "boolean", val |-> << "true" >> ],
    [ type |-> "object", val |-> <<>> ], Str(<<>>) }

StringInputs ==
  { Str(s) : s \in OpTexts \cup LexTexts \cup ChainTexts \cup WordTexts \cup ExampleTexts
                    \cup ParenTexts \cup KeywordTexts }

HighlightInputs == StringInputs \cup MalformedInputs

PrettifyInputs ==
  { Str(s) : s \in OpTexts \cup ExampleTexts \cup PunctTexts \cup KeywordTexts }
    \cup MalformedInputs

\* token sequences a caller may hand to classifyTokens directly
CallerTokenSet ==
  { Token(TOKEN_TYPES.IDENTIFIER, << "i", "f" >>, 0, 2),
    Token(TOKEN_TYPES.IDENTIFIER, << "a" >>, 0, 1),
    Token(TOKEN_TYPES.IDENTIFIER, << "A", "_", "b" >>, 2, 5),
    Token(TOKEN_TYPES.IDENTIFIER, << "n", "u", "l", "l" >>, 1, 5),
    Token(TOKEN_TYPES.IDENTIFIER, << "(" >>, 3, 4),
    Token(TOKEN_TYPES.FUNCTION, << "i", "f" >>, 0, 2),
    Token(TOKEN_TYPES.WHITESPACE, << " " >>, 1, 2),
    Token(TOKEN_TYPES.PARENTHESIS, << "(" >>, 2, 3) }

CallerTokens == SeqsUpTo(CallerTokenSet, MaxCallerTokens)

----------------------------------------------------------------------------
(* The calls *)

Init ==
  /\ clickDelay = 0
  /\ clickTimer = null
  /\ timers = {}
  /\ now = 0
  /\ trace = <<>>
  /\ position = 0
  /\ classified = <<>>
  /\ errors = <<>>
  /\ pretty = Undefined
  /\ once = Undefined
  /\ calls = 0
  /\ \/ /\ entry = "highlightFormula"
        /\ formula \in HighlightInputs
        /\ tokens = <<>>
        /\ pc = "tokenize"
     \/ /\ entry = "classifyTokens"
        /\ formula = Undefined
        /\ tokens \in CallerTokens
        /\ pc = "classify"
     \/ /\ entry = "prettifySalesforceFormula"
        /\ formula \in PrettifyInputs
        /\ tokens = <<>>
        /\ pc = "prettify"

text == formula.val

\* tokenizeFormula is inside its scan loop, at a character of rule `rule`
Scanning(rule) ==
  /\ pc = "tokenize"
  /\ Truthy(formula) /\ IsString(formula)
  /\ position < Len(text)
  /\ Rule(text, position) = rule

Advance(r) ==
  /\ position' = r.position
  /\ tokens' = tokens \o r.push
  /\ UNCHANGED << entry, formula, pc, classified, errors, pretty, once, calls, page >>

\* if (!formula || typeof formula !== "string") return [];
TokenizeRejects ==
  /\ pc = "tokenize"
  /\ ~Truthy(formula) \/ ~IsString(formula)
  /\ tokens' = <<>>
  /\ pc' = "classify"
  /\ UNCHANGED << entry, formula, position, classified, errors, pretty, once, calls, page >>

TokWhitespace == Scanning("whitespace") /\ Advance(ScanWhitespace(text, position))

TokStringDouble == Scanning("string2") /\ Advance(ScanString(text, position, "\""))

TokStringSingle == Scanning("string1") /\ Advance(ScanString(text, position, "'"))

TokBlockComment == Scanning("blockComment") /\ Advance(ScanBlockComment(text, position))

TokLineComment == Scanning("lineComment") /\ Advance(ScanLineComment(text, position))

TokOperator == Scanning("operator") /\ Advance(ScanOperator(text, position))

TokField == Scanning("field") /\ Advance(ScanField(text, position))

TokParenthesis ==
  Scanning("parenthesis") /\ Advance(ScanSingle(text, position, TOKEN_TYPES.PARENTHESIS))

TokComma == Scanning("comma") /\ Advance(ScanSingle(text, position, TOKEN_TYPES.COMMA))

TokNumber == Scanning("number") /\ Advance(ScanNumber(text, position))

TokDot == Scanning("dot") /\ Advance(ScanDot(text, position, tokens))

TokIdentifier == Scanning("identifier") /\ Advance(ScanIdentifier(text, position))

TokOther == Scanning("other") /\ Advance(ScanOther(text, position))

\* the scan loop ends: return tokens
TokReturn ==
  /\ pc = "tokenize"
  /\ Truthy(formula) /\ IsString(formula)
  /\ position >= Len(text)
  /\ pc' = "classify"
  /\ UNCHANGED << entry, formula, position, tokens, classified, errors, pretty, once, calls, page >>

\* classifyTokens(tokens), called by highlightFormula or directly
Classify ==
  /\ pc = "classify"
  /\ classified' = classifyTokens(tokens)
  /\ pc' = IF entry = "highlightFormula" THEN "detect" ELSE "done"
  /\ UNCHANGED << entry, formula, position, tokens, errors, pretty, once, calls, page >>

\* const errors = detectFormulaErrors(formula)
DetectErrors ==
  /\ pc = "detect"
  /\ errors' = detectFormulaErrors(formula)
  /\ pc' = "mark"
  /\ UNCHANGED << entry, formula, position, tokens, classified, pretty, once, calls, page >>

\* if (errors.length > 0) classifiedTokens = markErrorTokens(classifiedTokens, errors)
MarkErrors ==
  /\ pc = "mark"
  /\ classified' = IF Len(errors) > 0 THEN markErrorTokens(classified, errors)
                   ELSE classified
  /\ pc' = "done"
  /\ UNCHANGED << entry, formula, position, tokens, errors, pretty, once, calls, page >>

\* the argument of the running call of prettifySalesforceFormula: the caller's
\* formula, then the result of the first call
argument == IF calls = 0 THEN formula ELSE once

\* return r
PrettifyReturns(r) ==
  /\ pretty' = r
  /\ once' = IF calls = 0 THEN r ELSE once
  /\ calls' = calls + 1
  /\ pc' = "done"
  /\ UNCHANGED << entry, formula, position, tokens, classified, errors, page >>

\* if (!formula || typeof formula !== "string") return formula;
PrettifyRejects ==
  /\ pc = "prettify"
  /\ ~Truthy(argument) \/ ~IsString(argument)
  /\ PrettifyReturns(argument)

\* let result = formula.trim();  `pretty` holds `result` until the function returns
PrettifyTrim ==
  /\ pc = "prettify"
  /\ Truthy(argument) /\ IsString(argument)
  /\ pretty' = Str(Trim(argument.val))
  /\ pc' = "step1"
  /\ UNCHANGED << entry, formula, position, tokens, classified, errors, once, calls, page >>

\* one statement of prettifySalesforceFormula: result = r, then on to statement `next`
PrettifyStatement(at, r, next) ==
  /\ pc = at
  /\ pretty' = Str(r)
  /\ pc' = next
  /\ UNCHANGED << entry, formula, position, tokens, classified, errors, once, calls, page >>

\* Step 1: protect the multi-character operators
PrettifyProtect == PrettifyStatement("step1", ProtectOps(pretty.val, 1), "step2")

\* Step 2: spaces around the single-character operators
PrettifySpaceOps == PrettifyStatement("step2", SpaceSingleOps(pretty.val, 1), "step3")

\* Step 3: result.replace(/[ \t]*([(),])[ \t]*/g, "$1 ")
PrettifyPunctuation ==
  PrettifyStatement("step3", ReplaceAround(pretty.val, { "(", ")", "," }, <<>>, << " " >>),
                    "step4")

\* Step 4: result.replace(/[ \t]+/g, " ")
PrettifyCollapse == PrettifyStatement("step4", CollapseBlanks(pretty.val), "step5")

\* Step 5, the first six replaces of the chain: the placeholders back to operators
PrettifyRestore == PrettifyStatement("step5", RestoreOps(pretty.val, 1), "step5fix")

\* Step 5, the last six replaces of the chain: the operators split by step 2
PrettifyFixSplit == PrettifyStatement("step5fix", FixSplitOps(pretty.val, 1), "step6")

\* Step 6: result.replace(/[ \t]+/g, " ").trim()
PrettifyCleanup ==
  PrettifyStatement("step6", Trim(CollapseBlanks(pretty.val)), "capitalizeFunctions")

\* allFunctions.forEach(...)
PrettifyCapitalizeFunctions ==
  PrettifyStatement("capitalizeFunctions", Capitalize(pretty.val, prettifyFunctions),
                    "capitalizeConstants")

\* SF_KEYWORDS.constants.forEach(...)
PrettifyCapitalizeConstants ==
  PrettifyStatement("capitalizeConstants", Capitalize(pretty.val, SfKeywords.constants),
                    "spaceParens")

\* the final spacing around parentheses; return result
PrettifyReturn == pc = "spaceParens" /\ PrettifyReturns(Str(SpaceParens(pretty.val)))

\* prettify ? prettifySalesforceFormula(formula) : formula, for a formula that a
\* call of prettifySalesforceFormula has returned
PrettifyAgain ==
  /\ entry = "prettifySalesforceFormula"
  /\ pc = "done"
  /\ calls = 1
  /\ pc' = "prettify"
  /\ UNCHANGED << entry, formula, position, tokens, classified, errors, pretty, once, calls, page >>

Next ==
  \/ TokenizeRejects
  \/ TokWhitespace
  \/ TokStringDouble
  \/ TokStringSingle
  \/ TokBlockComment
  \/ TokLineComment
  \/ TokOperator
  \/ TokField
  \/ TokParenthesis
  \/ TokComma
  \/ TokNumber
  \/ TokDot
  \/ TokIdentifier
  \/ TokOther
  \/ TokReturn
  \/ Classify
  \/ DetectErrors
  \/ MarkErrors
  \/ PrettifyRejects
  \/ PrettifyTrim
  \/ PrettifyProtect
  \/ PrettifySpaceOps
  \/ PrettifyPunctuation
  \/ PrettifyCollapse
  \/ PrettifyRestore
  \/ PrettifyFixSplit
  \/ PrettifyCleanup
  \/ PrettifyCapitalizeFunctions
  \/ PrettifyCapitalizeConstants
  \/ PrettifyReturn
  \/ PrettifyAgain

Spec == Init /\ [][Next]_vars

----------------------------------------------------------------------------
(* The handlers of the master table *)

\* the rows of the master table
Rows == { "tr1", "tr2" }

\* the caller's getIdentifier, applied to the row the event is delivered to
getIdentifier(row) == IF row = "tr1" THEN "id1" ELSE "id2"

\* the events delivered to the handlers so far
UserEvents == { i \in DOMAIN trace : trace[i].kind \in { "click", "dblclick" } }

\* an entry of the trace
Entry(kind, identifier) == [ kind |-> kind, identifier |-> identifier, at |-> now ]

\* setTimeout(() => {...}, clickDelay): the browser hands out a fresh handle
setTimeout(handle, identifier) ==
  [ id |-> handle, due |-> now + clickDelay, identifier |-> identifier ]

\* clearTimeout(clickTimer)
clearTimeout(handle) == { t \in timers : t.id # handle }

\* setupMasterTableClickHandlers(tableSelector, getIdentifier, displayDetails,
\* addAndDisplayDetails, clickDelay) has registered the two handlers
ClickInit ==
  /\ entry = "setupMasterTableClickHandlers"
  /\ formula = Undefined
  /\ pc = "listening"
  /\ position = 0
  /\ tokens = <<>>
  /\ classified = <<>>
  /\ errors = <<>>
  /\ pretty = Undefined
  /\ once = Undefined
  /\ calls = 0
  /\ clickDelay \in 1..MaxDelay
  /\ clickTimer = null
  /\ timers = {}
  /\ now = 0
  /\ trace = <<>>

Listening ==
  /\ entry = "setupMasterTableClickHandlers"
  /\ UNCHANGED << entry, formula, pc, position, tokens, classified, errors, pretty,
                  once, calls, clickDelay >>

\* Mutant of ClickHandler: a click arms a timer whether or not one is pending.
ClickHandler_AlwaysArms ==
  /\ Listening
  /\ Cardinality(UserEvents) < MaxEvents
  /\ now + clickDelay <= MaxTime
  /\ \E row \in Rows :
       LET identifier == getIdentifier(row)
       IN  /\ trace' = Append(trace, Entry("click", identifier))
           /\ clickTimer' = Len(trace')
           /\ timers' = timers \cup { setTimeout(Len(trace'), identifier) }
  /\ UNCHANGED now

\* the handler of "click" on a row of the table; the timer can still run out
\* within MaxTime
ClickHandler ==
  /\ Listening
  /\ Cardinality(UserEvents) < MaxEvents
  /\ now + clickDelay <= MaxTime
  /\ \E row \in Rows :
       LET identifier == getIdentifier(row)
       IN  /\ trace' = Append(trace, Entry("click", identifier))
           /\ IF clickTimer # null
              THEN /\ timers' = clearTimeout(clickTimer)
                   /\ clickTimer' = null
              ELSE /\ clickTimer' = Len(trace')
                   /\ timers' = timers \cup { setTimeout(Len(trace'), identifier) }
  /\ UNCHANGED now

\* the handler of "dblclick" on a row of the table
DblClickHandler ==
  /\ Listening
  /\ Cardinality(UserEvents) < MaxEvents
  /\ \E row \in Rows :
       LET identifier == getIdentifier(row)
       IN  trace' = trace \o << Entry("dblclick", identifier),
                                Entry("addAndDisplayDetails", identifier) >>
  /\ IF clickTimer # null
     THEN /\ timers' = clearTimeout(clickTimer)
          /\ clickTimer' = null
     ELSE UNCHANGED << timers, clickTimer >>
  /\ UNCHANGED now

\* the browser runs the callback of a timer that is due:
\* displayDetails(identifier); clickTimer = null
TimerCallback ==
  /\ Listening
  /\ \E t \in timers :
       /\ now >= t.due
       /\ timers' = timers \ { t }
       /\ trace' = Append(trace, Entry("displayDetails", t.identifier))
  /\ clickTimer' = null
  /\ UNCHANGED now

\* the clock of the browser advances; a timer that is due may run late
Tick ==
  /\ Listening
  /\ now < MaxTime
  /\ now' = now + 1
  /\ UNCHANGED << clickTimer, timers, trace >>

ClickNext ==
  \/ ClickHandler
  \/ DblClickHandler
  \/ TimerCallback
  \/ Tick

\* the browser lets time pass and runs the callback of a timer that is due
ClickSpec ==
  ClickInit /\ [][ClickNext]_vars /\ WF_vars(Tick) /\ WF_vars(TimerCallback)

----------------------------------------------------------------------------
(* Properties *)

\* tokens holds the result of tokenizeFormula(formula)
Returned == entry = "highlightFormula" /\ pc # "tokenize"

\* the input is a non-empty string
WellFormed == Truthy(formula) /\ IsString(formula)

\* the spans of toks tile [0, n): no gap, no overlap
IsPartition(toks, n) ==
  IF toks = <<>> THEN n = 0
  ELSE /\ toks[1].start = 0
       /\ \A i \in 2..Len(toks) : toks[i].start = toks[i - 1].end
       /\ toks[Len(toks)].end = n

\* C1: the spans of the tokens tokenizeFormula returns form a total partition of
\* [0, length): the first starts at 0, each starts where the one before it ends,
\* and the last ends at length.
C1_Partition == (Returned /\ WellFormed) => IsPartition(tokens, Len(text))

\* C2: the tokens have non-empty spans, strictly increasing starts, and no token
\* starts before the end of the one before it.
C2_Ordered ==
  entry = "highlightFormula" =>
    \A i \in DOMAIN tokens :
      /\ tokens[i].start < tokens[i].end
      /\ i > 1 => /\ tokens[i].start >= tokens[i - 1].end
                  /\ tokens[i].start > tokens[i - 1].start

\* a returned sequence in which a token does not abut the token before it
C2_Witness ==
  /\ Returned
  /\ Len(tokens) >= 2
  /\ \E i \in 2..Len(tokens) : tokens[i].start > tokens[i - 1].end

SpaceCount(s) == Cardinality({ i \in DOMAIN s : IsSpace(s[i]) })

\* the source text a token spans
SpanText(tok) == SubSeq(text, tok.start + 1, tok.end)

\* some nested_field token spans whitespace that its value does not hold
JoinCollapsedWhitespace ==
  \E i \in DOMAIN tokens :
    /\ tokens[i].type = TOKEN_TYPES.NESTED_FIELD
    /\ SpaceCount(SpanText(tokens[i])) > SpaceCount(tokens[i].value)

\* the value fields concatenated in order
Values(toks) == Flatten([ i \in 1..Len(toks) |-> toks[i].value ])

\* C3: when nested-field joining collapsed no whitespace, the values of the
\* returned tokens concatenated in order are the input text.
C3_Reconstruct ==
  (Returned /\ WellFormed /\ ~JoinCollapsedWhitespace) => Values(tokens) = text

\* C4: an operator token is the longest lexeme of the operator table that is a
\* prefix of the input at the token's start, so no multi-character operator is
\* emitted as two adjacent single-character operator tokens.
C4_LongestOperator ==
  (entry = "highlightFormula" /\ WellFormed) =>
    \A i \in DOMAIN tokens :
      tokens[i].type = TOKEN_TYPES.OPERATOR =>
        /\ tokens[i].value \in Range(OPERATORS)
        /\ OperatorAt(text, tokens[i].start, tokens[i].value)
        /\ tokens[i].end = tokens[i].start + Len(tokens[i].value)
        /\ \A op \in Range(OPERATORS) :
             OperatorAt(text, tokens[i].start, op) => Len(op) <= Len(tokens[i].value)
        /\ (i > 1 /\ tokens[i - 1].type = TOKEN_TYPES.OPERATOR
              /\ Len(tokens[i - 1].value) = 1 /\ Len(tokens[i].value) = 1)
             => tokens[i - 1].value \o tokens[i].value \notin Range(OPERATORS)

\* "<=" followed by "=" was scanned: the two-character lexeme was taken first
C4_Witness ==
  /\ Returned
  /\ text = << "<", "=", "=" >>
  /\ Len(tokens) = 2
  /\ tokens[1].value = << "<", "=" >>

\* the text starts like a separator of a chain: blanks, a dot, blanks, "["
DotThenBracket(t) ==
  LET t1 == SkipSpace(t, 0)
      t2 == SkipSpace(t, t1 + 1)
  IN  /\ t1 < Len(t) /\ t[t1 + 1] = "."
      /\ t2 < Len(t) /\ t[t2 + 1] = "["

\* C5: a chain of two or more bracket-balanced fields separated by dots, with
\* optional whitespace around the dots, becomes exactly one nested_field token
\* whose value is the fields joined by single dots; a single field not followed
\* by dot-then-"[" becomes exactly one token, nested_field if it holds a dot and
\* field otherwise.
C5_NestedJoin ==
  (Returned /\ WellFormed) =>
    \A c \in Chains :
      (Len(c.text) <= Len(text) /\ SubSeq(text, 1, Len(c.text)) = c.text) =>
        LET t == SubSeq(text, Len(c.text) + 1, Len(text))
        IN  /\ (c.n >= 2 /\ t = <<>>) =>
                 tokens = << Token(TOKEN_TYPES.NESTED_FIELD, c.joined, 0, Len(text)) >>
            /\ (t \in Tails /\ ~DotThenBracket(t)) =>
                 IF c.n >= 2
                 THEN /\ tokens[1].type = TOKEN_TYPES.NESTED_FIELD
                      /\ tokens[1].value = c.joined
                      /\ tokens[1].start = 0
                      /\ \A i \in 2..Len(tokens) : tokens[i].start >= Len(c.text)
                 ELSE tokens[1] =
                        Token(IF Includes(c.text, ".") THEN TOKEN_TYPES.NESTED_FIELD
                              ELSE TOKEN_TYPES.FIELD, c.text, 0, Len(c.text))

\* a chain with blanks on both sides of its dot was joined into one token
C5_Witness ==
  /\ Returned
  /\ text = << "[", "a", "]", " ", ".", " ", "[", "a", ".", "b", "]" >>
  /\ Len(tokens) = 1
  /\ tokens[1].value = << "[", "a", "]", ".", "[", "a", ".", "b", "]" >>

\* C6: on the empty string and on every value that is no string, tokenizeFormula
\* returns the empty sequence, detectFormulaErrors returns no error and
\* prettifySalesforceFormula returns its argument.
C6_Malformed ==
  ~WellFormed =>
    /\ (entry = "highlightFormula" /\ pc # "tokenize") =>
         tokens = <<>> /\ tokenizeFormula(formula) = <<>>
    /\ (entry = "highlightFormula" /\ pc \in { "mark", "done" }) =>
         errors = <<>> /\ detectFormulaErrors(formula) = <<>>
    /\ (entry = "prettifySalesforceFormula" /\ pc = "done") => pretty = formula

\* prettifySalesforceFormula has returned for the number 0
C6_Witness ==
  /\ entry = "prettifySalesforceFormula"
  /\ pc = "done"
  /\ formula = [ type |-> "number", val |-> << "0" >> ]

\* classified holds the result of classifyTokens(tokens)
Classified ==
  \/ entry = "highlightFormula" /\ pc = "detect"
  \/ entry = "classifyTokens" /\ pc = "done"

\* C7: classifying a classified sequence changes nothing: type, value, start and
\* end of every token stay as they are.
C7_Idempotent == Classified => classifyTokens(classified) = classified

\* a classified sequence in which an identifier was left as it is in front of a
\* rewritten one
C7_Witness ==
  /\ Classified
  /\ \E i \in 1..(Len(tokens) - 1) :
       /\ classified[i].type = TOKEN_TYPES.IDENTIFIER
       /\ tokens[i + 1].type = TOKEN_TYPES.IDENTIFIER
       /\ classified[i + 1].type = TOKEN_TYPES.FUNCTION

\* the kind and value the rules give an identifier token, first rule first
ExpectedClass(toks, i) ==
  LET v        == toks[i].value
      up       == toUpperCase(v)
      rest     == SubSeq(toks, i + 1, Len(toks))
      nonSpace == { j \in DOMAIN rest : rest[j].type # TOKEN_TYPES.WHITESPACE }
      next     == CHOOSE j \in nonSpace : \A k \in nonSpace : j <= k
      callLike == /\ nonSpace # {}
                  /\ rest[next].type = TOKEN_TYPES.PARENTHESIS
                  /\ rest[next].value = << "(" >>
  IN  CASE up \in allFunctions -> [ type |-> "function", value |-> up ]
        [] up \notin allFunctions /\ up \in SfKeywords.constants ->
             [ type |-> "constant", value |-> up ]
        [] OTHER ->
             IF v # <<>> /\ v[1] \in LowerSet /\ callLike
             THEN [ type |-> "custom_function", value |-> v ]
             ELSE IF /\ \E k \in DOMAIN v : v[k] = "_"
                     /\ v # <<>> /\ v[1] \in UpperSet
                     /\ \A k \in 2..Len(v) :
                          v[k] \in LowerSet \cup UpperSet \cup DigitSet \cup { "_" }
             THEN [ type |-> "formula_field", value |-> v ]
             ELSE [ type |-> "identifier", value |-> v ]

\* C8: every identifier token is rewritten by the first rule that applies:
\* function table, constant table, lower-case call, formula field, else it stays
\* an identifier.
C8_RuleOrder ==
  Classified =>
    \A i \in DOMAIN tokens :
      tokens[i].type = TOKEN_TYPES.IDENTIFIER =>
        /\ classified[i].type = ExpectedClass(tokens, i).type
        /\ classified[i].value = ExpectedClass(tokens, i).value

\* a lower-case name of the function table stands in front of "(": the function
\* rule and the lower-case call rule both apply, and the function rule has won
C8_Witness ==
  /\ Classified
  /\ \E j \in 1..(Len(tokens) - 1) :
       /\ tokens[j].type = TOKEN_TYPES.IDENTIFIER
       /\ tokens[j].value = << "i", "f" >>
       /\ tokens[j + 1].value = << "(" >>
       /\ classified[j].type = TOKEN_TYPES.FUNCTION
       /\ classified[j].value = << "I", "F" >>

\* C9: classifyTokens returns a sequence of the same length with the same spans
\* and the same values up to letter case, returns every token that is no
\* identifier as it is, and leaves its argument alone.
C9_Frame ==
  [][ pc = "classify" =>
        /\ tokens' = tokens
        /\ Len(classified') = Len(tokens)
        /\ \A i \in DOMAIN tokens :
             /\ classified'[i].start = tokens[i].start
             /\ classified'[i].end = tokens[i].end
             /\ toUpperCase(classified'[i].value) = toUpperCase(tokens[i].value)
             /\ tokens[i].type # TOKEN_TYPES.IDENTIFIER => classified'[i] = tokens[i]
    ]_vars

\* a caller's sequence with a keyword in a token that is no identifier, classified
C9_Witness ==
  /\ entry = "classifyTokens"
  /\ pc = "done"
  /\ \E i, j \in DOMAIN tokens :
       /\ tokens[i].type = TOKEN_TYPES.FUNCTION
       /\ tokens[i].value = << "i", "f" >>
       /\ tokens[j].type = TOKEN_TYPES.IDENTIFIER
       /\ classified[j].value # tokens[j].value

\* the "(" tokens of toks that standard matching leaves without a ")"
RECURSIVE UnmatchedOpenings(_, _, _)
UnmatchedOpenings(toks, i, open) ==
  IF i > Len(toks) THEN open
  ELSE IF toks[i].type # TOKEN_TYPES.PARENTHESIS THEN UnmatchedOpenings(toks, i + 1, open)
  ELSE IF toks[i].value = << "(" >> THEN UnmatchedOpenings(toks, i + 1, open + 1)
  ELSE UnmatchedOpenings(toks, i + 1, IF open > 0 THEN open - 1 ELSE 0)

\* openings minus closings over the whole sequence
ParenDepth(toks) ==
  Cardinality({ i \in DOMAIN toks :
                  toks[i].type = TOKEN_TYPES.PARENTHESIS /\ toks[i].value = << "(" >> })
    - Cardinality({ i \in DOMAIN toks :
                      toks[i].type = TOKEN_TYPES.PARENTHESIS /\ toks[i].value = << ")" >> })

\* errors holds the result of detectFormulaErrors(formula)
Detected == entry = "highlightFormula" /\ pc \in { "mark", "done" }

\* the errors whose message ends " unmatched opening parenthesis(es)"
AggregateErrors ==
  { i \in DOMAIN errors :
      /\ Len(errors[i].message) >= 2
      /\ errors[i].message[2] = " unmatched opening parenthesis" }

\* C10: when the parenthesis depth is positive after the scan, exactly one
\* aggregate syntax error is reported, at length - 1, and its message gives the
\* number of "(" tokens left without a matching ")", in the plural when that
\* number exceeds one.
C10_AggregateCount ==
  (Detected /\ WellFormed /\ ParenDepth(tokens) > 0) =>
    LET n == UnmatchedOpenings(tokens, 1, 0)
    IN  /\ Cardinality(AggregateErrors) = 1
        /\ \A i \in AggregateErrors :
             /\ errors[i].position = Len(text) - 1
             /\ errors[i].type = "syntax"
             /\ errors[i].message =
                  DecimalString(n) \o << " unmatched opening parenthesis" >>
                    \o (IF n > 1 THEN << "es" >> ELSE <<>>)


\* the openings minus the closings among the parenthesis tokens toks[1..i]
RunningDepth(toks, i) == ParenDepth(SubSeq(toks, 1, i))

\* the ")" tokens after which the running depth is negative
UnmatchedClosings ==
  { i \in DOMAIN tokens :
      /\ tokens[i].type = TOKEN_TYPES.PARENTHESIS
      /\ tokens[i].value = << ")" >>
      /\ RunningDepth(tokens, i) < 0 }

\* the errors with the message "Unmatched closing parenthesis"
ClosingErrors ==
  { k \in DOMAIN errors : errors[k].message = << "Unmatched closing parenthesis" >> }

\* C11: detectFormulaErrors reports one syntax error "Unmatched closing
\* parenthesis", at the token's start, for exactly the ")" parenthesis tokens after
\* which the running depth, never reset, is negative; for IF(1,2,3)) that is the
\* only error, at the last ")".
C11_ClosingErrors ==
  (Detected /\ WellFormed) =>
    /\ \A k \in ClosingErrors :
         /\ errors[k].type = "syntax"
         /\ \E i \in UnmatchedClosings : tokens[i].start = errors[k].position
    /\ \A i \in UnmatchedClosings :
         Cardinality({ k \in ClosingErrors : errors[k].position = tokens[i].start }) = 1
    /\ text = << "I", "F", "(", "1", ",", "2", ",", "3", ")", ")" >> =>
         errors = << [ position |-> 9, message |-> << "Unmatched closing parenthesis" >>,
                       type |-> "syntax" ] >>

\* a "(" inside a string left the depth alone, so that the ")" after the string
\* is reported
C11_Witness ==
  /\ Detected
  /\ text = << "\"", "(", "\"", ")" >>
  /\ Len(errors) = 1
  /\ errors[1].position = 3

\* the first token after toks[i] that is no whitespace is the parenthesis "("
CallLike(toks, i) ==
  \E j \in (i + 1)..Len(toks) :
    /\ toks[j].type = TOKEN_TYPES.PARENTHESIS
    /\ toks[j].value = << "(" >>
    /\ \A k \in (i + 1)..(j - 1) : toks[k].type = TOKEN_TYPES.WHITESPACE

\* the errors of kind function
FunctionErrors == { k \in DOMAIN errors : errors[k].type = "function" }

\* C12: detectFormulaErrors reports a function error "Invalid function: <value>"
\* at an identifier token's start exactly when the first token after it that is
\* no whitespace is "(", its upper-case form is in no category of the function
\* table, and its first character is an upper-case letter.
C12_InvalidFunction ==
  (Detected /\ WellFormed) =>
    /\ \A i \in DOMAIN tokens :
         tokens[i].type = TOKEN_TYPES.IDENTIFIER =>
           ( (\E k \in FunctionErrors :
                /\ errors[k].position = tokens[i].start
                /\ errors[k].message = << "Invalid function: " >> \o tokens[i].value)
             <=> /\ CallLike(tokens, i)
                 /\ toUpperCase(tokens[i].value) \notin
                      UNION { SfKeywords[cat] :
                                cat \in { "logical", "text", "math", "datetime",
                                          "conversion", "advanced" } }
                 /\ tokens[i].value[1] \in UpperSet )
    /\ \A k \in FunctionErrors :
         \E i \in DOMAIN tokens :
           /\ tokens[i].type = TOKEN_TYPES.IDENTIFIER
           /\ tokens[i].start = errors[k].position

\* an unknown name in mixed case was reported across whitespace, as written
C12_Witness ==
  /\ Detected
  /\ text = << "F", "o", "o", " ", "(" >>
  /\ \E k \in DOMAIN errors :
       /\ errors[k].type = "function"
       /\ errors[k].position = 0
       /\ errors[k].message = << "Invalid function: ", "F", "o", "o" >>

\* some error is positioned at the start or at the last character of tok
Flagged(tok, errs) ==
  \E k \in DOMAIN errs : errs[k].position \in { tok.start, tok.end - 1 }

\* C13: markErrorTokens returns a sequence of the same length in which a token
\* has the type error exactly when its start or its end - 1 is the position of
\* an error; every other token is returned as it is, and no value, start or end
\* is changed.
C13_MarkErrors ==
  [][ pc = "mark" =>
        /\ Len(classified') = Len(classified)
        /\ \A i \in DOMAIN classified :
             /\ classified'[i].type = TOKEN_TYPES.ERROR <=> Flagged(classified[i], errors)
             /\ ~Flagged(classified[i], errors) => classified'[i] = classified[i]
             /\ classified'[i].value = classified[i].value
             /\ classified'[i].start = classified[i].start
             /\ classified'[i].end = classified[i].end
    ]_vars

\* the aggregate error at length - 1 has marked the token that ends there and
\* does not start there, and has left the token before it alone
C13_Witness ==
  /\ entry = "highlightFormula"
  /\ pc = "done"
  /\ text = << "(", "i", "f" >>
  /\ classified[1].type = TOKEN_TYPES.PARENTHESIS
  /\ classified[2] = Token(TOKEN_TYPES.ERROR, << "I", "F" >>, 1, 3)

\* once holds the result of prettifySalesforceFormula(formula)
Prettified == entry = "prettifySalesforceFormula" /\ calls >= 1

\* C14: in the result of prettifySalesforceFormula no "(" has a blank in front
\* of it, every ")" that is not the last character is followed by exactly one
\* blank, and if(a=1,true,false) becomes IF(a = 1, TRUE, FALSE).
C14_ParenSpacing ==
  (Prettified /\ WellFormed) =>
    LET out == once.val
    IN  /\ \A i \in 2..Len(out) : out[i] = "(" => ~IsBlank(out[i - 1])
        /\ \A i \in 1..(Len(out) - 1) :
             out[i] = ")" => /\ out[i + 1] = " "
                             /\ i + 2 <= Len(out) => ~IsBlank(out[i + 2])
        /\ text = << "i", "f", "(", "a", "=", "1", ",", "t", "r", "u", "e", ",",
                     "f", "a", "l", "s", "e", ")" >> =>
             out = << "I", "F", "(", "a", " ", "=", " ", "1", ",", " ",
                      "T", "R", "U", "E", ",", " ", "F", "A", "L", "S", "E", ")" >>

\* s holds no quote character, hence no string literal
NoStringLiteral(s) == \A i \in DOMAIN s : s[i] \notin { "\"", "'" }

\* pretty holds the result of prettifySalesforceFormula(once)
PrettifiedTwice == entry = "prettifySalesforceFormula" /\ pc = "done" /\ calls = 2

\* C15: for a formula without string literals, prettifySalesforceFormula applied
\* to its own result returns that result.
C15_Idempotent ==
  (PrettifiedTwice /\ WellFormed /\ NoStringLiteral(text)) => pretty = once

\* the overlapping operator characters <== were prettified to < ==, and the
\* second call has returned that text again
C15_Witness ==
  /\ PrettifiedTwice
  /\ text = << "<", "=", "=" >>
  /\ once.val = << "<", " ", "=", "=" >>
  /\ pretty = once

IsNoWhitespace(tok) == tok.type # TOKEN_TYPES.WHITESPACE

\* the tokens of toks that are no whitespace
NonWhitespace(toks) == SelectSeq(toks, IsNoWhitespace)

\* the first call of prettifySalesforceFormula has just returned
PrettifiedOnce == entry = "prettifySalesforceFormula" /\ pc = "done" /\ calls = 1

\* C16: for a formula without string literals, the tokens of the prettified
\* formula that are no whitespace have the types and, up to letter case, the
\* values of those of the formula, in the same order.
C16_TokensKept ==
  (PrettifiedOnce /\ WellFormed /\ NoStringLiteral(text)) =>
    LET before == NonWhitespace(tokenizeFormula(formula))
        after  == NonWhitespace(tokenizeFormula(once))
    IN  /\ Len(after) = Len(before)
        /\ \A i \in DOMAIN before :
             /\ after[i].type = before[i].type
             /\ toUpperCase(after[i].value) = toUpperCase(before[i].value)

\* the maximal runs of word characters of s from offset i on, in order
RECURSIVE WordsFrom(_, _)
WordsFrom(s, i) ==
  IF i >= Len(s) THEN <<>>
  ELSE IF IsIdentPart(s[i + 1])
  THEN << SubSeq(s, i + 1, WordEnd(s, i)) >> \o WordsFrom(s, WordEnd(s, i))
  ELSE WordsFrom(s, i + 1)

\* the names classifyTokens rewrites to function or constant
KnownNames == allFunctions \cup SfKeywords.constants

\* C17: every whole word of the formula that is, in any letter case, a name of
\* the function table or of the constant table stands in upper case in the
\* result of prettifySalesforceFormula.
C17_Uppercased ==
  (PrettifiedOnce /\ WellFormed) =>
    LET before == WordsFrom(text, 0)
        after  == WordsFrom(once.val, 0)
    IN  /\ Len(after) = Len(before)
        /\ \A i \in DOMAIN before :
             toUpperCase(before[i]) \in KnownNames => after[i] = toUpperCase(before[i])

\* C18: a nested_field token ends right after the closing "]" of its last field,
\* or at the end of the text when that field is not closed; what follows it is
\* the start of the next token.
C18_NestedEnd ==
  (Returned /\ WellFormed) =>
    \A i \in DOMAIN tokens :
      tokens[i].type = TOKEN_TYPES.NESTED_FIELD =>
        /\ IF tokens[i].value[Len(tokens[i].value)] = "]"
           THEN text[tokens[i].end] = "]"
           ELSE tokens[i].end = Len(text)
        /\ tokens[i].end < Len(text) =>
             \E j \in DOMAIN tokens : tokens[j].start = tokens[i].end

\* the offset right after the first q at or after offset i that is not the second
\* character of a backslash pair, the pairs being taken from offset i on from left
\* to right; the length of s when there is none
RECURSIVE ClosingQuoteEnd(_, _, _)
ClosingQuoteEnd(s, i, q) ==
  IF i >= Len(s) THEN Len(s)
  ELSE IF s[i + 1] = q THEN i + 1
  ELSE IF s[i + 1] = "\\" /\ i + 2 <= Len(s) THEN ClosingQuoteEnd(s, i + 2, q)
  ELSE ClosingQuoteEnd(s, i + 1, q)

\* C19: a string token that begins at a quote q ends right after the first later
\* q that is not the second character of a backslash pair, or at the end of the
\* text; its value is the text it spans.
C19_StringEnd ==
  (entry = "highlightFormula" /\ WellFormed) =>
    \A i \in DOMAIN tokens :
      tokens[i].type = TOKEN_TYPES.STRING =>
        /\ text[tokens[i].start + 1] \in { "\"", "'" }
        /\ tokens[i].end =
             ClosingQuoteEnd(text, tokens[i].start + 1, text[tokens[i].start + 1])
        /\ tokens[i].value = SpanText(tokens[i])

\* a double-quoted string holds a single quote and an escaped double quote, and
\* is not closed: its value ends with the escaped quote
C19_Witness ==
  /\ Returned
  /\ text = << "\"", "'", "\\", "\"" >>
  /\ tokens = << Token(TOKEN_TYPES.STRING, << "\"", "'", "\\", "\"" >>, 0, 4) >>

\* the errors reported after the scan for the openings left unmatched
OpeningErrors ==
  { k \in DOMAIN errors :
      /\ Len(errors[k].message) >= 2
      /\ errors[k].message[2] \in { " unmatched opening parenthesis",
                                    " unmatched opening bracket" } }

\* the statement of C20 as it stands: every position in the errors of
\* detectFormulaErrors is the start of a token of the text.
C20_TokenStart ==
  (Detected /\ WellFormed) =>
    \A k \in DOMAIN errors : \E i \in DOMAIN tokens : tokens[i].start = errors[k].position

\* C20, amended: every position in the errors of detectFormulaErrors is the
\* start of a token of the text, except the position of the aggregate error for
\* unmatched openings, which is length - 1.
C20_PositionKinds ==
  (Detected /\ WellFormed) =>
    \A k \in DOMAIN errors :
      IF k \in OpeningErrors
      THEN errors[k].position = Len(text) - 1
      ELSE \E i \in DOMAIN tokens : tokens[i].start = errors[k].position

\* an unknown function and the aggregate error in one text: the first at the
\* start of its token, the second inside the last token
C20_Witness ==
  /\ Detected
  /\ text = << "F", "O", "O", "(", "i", "f" >>
  /\ Len(errors) = 2
  /\ errors[1].type = "function" /\ errors[1].position = 0
  /\ errors[2].type = "syntax" /\ errors[2].position = 5
  /\ \A i \in DOMAIN tokens : tokens[i].start # 5

\* the types of the tokens tokenizeFormula pushes
TokenizerKinds ==
  { TOKEN_TYPES.WHITESPACE, TOKEN_TYPES.STRING, TOKEN_TYPES.COMMENT, TOKEN_TYPES.OPERATOR,
    TOKEN_TYPES.FIELD, TOKEN_TYPES.NESTED_FIELD, TOKEN_TYPES.PARENTHESIS,
    TOKEN_TYPES.COMMA, TOKEN_TYPES.NUMBER, TOKEN_TYPES.DOT, TOKEN_TYPES.IDENTIFIER }

\* the state of the loop of detectFormulaErrors after the first n tokens of toks
DetectorAfter(toks, n) ==
  DetectLoop(SubSeq(toks, 1, n), 1,
             [ openParens |-> 0, openBrackets |-> 0, errors |-> <<>> ])

\* the errors that speak of a bracket
BracketErrors ==
  { k \in DOMAIN errors :
      \/ errors[k].message = << "Unmatched closing bracket" >>
      \/ /\ Len(errors[k].message) >= 2
         /\ errors[k].message[2] = " unmatched opening bracket" }

\* C21: tokenizeFormula pushes tokens of eleven types only, none of them bracket,
\* function, constant, custom_function, formula_field or error; a token that
\* begins at "[" is a field or a nested_field, a token that begins at "]" is the
\* one-character identifier "]"; so the bracket counter of detectFormulaErrors
\* is zero after every token and no error speaks of a bracket.
C21_NoBracketTokens ==
  (entry = "highlightFormula" /\ WellFormed) =>
    /\ \A i \in DOMAIN tokens :
         /\ tokens[i].type \in TokenizerKinds
         /\ text[tokens[i].start + 1] = "[" =>
              tokens[i].type \in { TOKEN_TYPES.FIELD, TOKEN_TYPES.NESTED_FIELD }
         /\ text[tokens[i].start + 1] = "]" =>
              tokens[i] = Token(TOKEN_TYPES.IDENTIFIER, << "]" >>,
                                tokens[i].start, tokens[i].start + 1)
    /\ Returned =>
         \A n \in 0..Len(tokens) : DetectorAfter(tokens, n).openBrackets = 0
    /\ Detected => BracketErrors = {}

\* a text of a stray "]" and an unclosed "[": two tokens, no error
C21_Witness ==
  /\ Detected
  /\ text = << "]", "[" >>
  /\ tokens = << Token(TOKEN_TYPES.IDENTIFIER, << "]" >>, 0, 1),
                 Token(TOKEN_TYPES.FIELD, << "[" >>, 1, 2) >>
  /\ errors = <<>>

\* a pass of the scan loop of tokenizeFormula, or its return
ScanLoopStep == pc = "tokenize" /\ WellFormed /\ entry = "highlightFormula"

\* C22: tokenizeFormula terminates and returns for every string: every pass of
\* the scan loop moves the cursor forward and leaves it at most at the length of
\* the text, so there are at most length passes, and the function returns with
\* the cursor at the length of the text and the tokens pushed so far.
C22_CursorAdvances ==
  [][ ScanLoopStep =>
        \/ /\ pc' = "tokenize"
           /\ position < position'
           /\ position' <= Len(text)
        \/ /\ pc' = "classify"
           /\ position = Len(text)
           /\ tokens' = tokens ]_vars

\* the scan has returned on an unterminated string that ends in a backslash
C22_Witness ==
  /\ Returned
  /\ text = << "\"", "x", "\\" >>
  /\ position = 3
  /\ tokens = << Token(TOKEN_TYPES.STRING, << "\"", "x", "\\" >>, 0, 3) >>

\* the errors of kind syntax
SyntaxErrors == { k \in DOMAIN errors : errors[k].type = "syntax" }

\* the parenthesis tokens of toks are properly balanced
Balanced(toks) ==
  /\ \A i \in 0..Len(toks) : RunningDepth(toks, i) >= 0
  /\ ParenDepth(toks) = 0

\* C23: detectFormulaErrors reports no error of kind syntax exactly when the
\* parenthesis tokens of the text are properly balanced: no prefix of the tokens
\* has more ")" than "(", and the totals are equal.
C23_SyntaxIffUnbalanced ==
  (Detected /\ WellFormed) => (SyntaxErrors = {} <=> Balanced(tokens))

\* FOO() is balanced and has one error, of kind function
C23_Witness ==
  /\ Detected
  /\ text = << "F", "O", "O", "(", ")" >>
  /\ Balanced(tokens)
  /\ Len(errors) = 1
  /\ SyntaxErrors = {}

\* toks[i] is a ")" parenthesis token
IsClosing(toks, i) ==
  toks[i].type = TOKEN_TYPES.PARENTHESIS /\ toks[i].value = << ")" >>

\* toks[i] is a ")" that standard matching pairs with an earlier "(": some "("
\* before it is still open once every earlier ")" has taken its partner
ClosesAnOpening(toks, i) ==
  IsClosing(toks, i) /\ UnmatchedOpenings(SubSeq(toks, 1, i - 1), 1, 0) > 0

\* C24: every error "Unmatched closing parenthesis" is at the start of a ")"
\* token that standard matching pairs with no earlier "("; a ")" that closes an
\* open "(" is not flagged, whatever came before it.
C24_StandardMatching ==
  (Detected /\ WellFormed) =>
    /\ \A k \in ClosingErrors :
         \E i \in DOMAIN tokens :
           /\ IsClosing(tokens, i)
           /\ tokens[i].start = errors[k].position
           /\ ~ClosesAnOpening(tokens, i)
    /\ \A i \in DOMAIN tokens :
         ClosesAnOpening(tokens, i) =>
           \A k \in ClosingErrors : errors[k].position # tokens[i].start

\* highlightFormula has detected and marked the errors of the text
Marked == entry = "highlightFormula" /\ pc = "done"

\* the tokens that markErrorTokens has rewritten to error
ErrorTokens == { i \in DOMAIN classified : classified[i].type = TOKEN_TYPES.ERROR }

\* the tokens error k is reported for: the last token for an aggregate error, the
\* ")" or identifier token that starts at its position otherwise
TokensOf(k) ==
  IF k \in OpeningErrors THEN { Len(tokens) } \ { 0 }
  ELSE { i \in DOMAIN tokens :
           /\ tokens[i].start = errors[k].position
           /\ IsClosing(tokens, i) \/ tokens[i].type = TOKEN_TYPES.IDENTIFIER }

\* C25: in highlightFormula the tokens rewritten to error are, for every error,
\* the one ")" or identifier token that starts at its position, or the last
\* token for the aggregate error, and no other token; different errors mark
\* different tokens, so there are as many error tokens as errors.
C25_OneTokenPerError ==
  (Marked /\ WellFormed) =>
    /\ Len(classified) = Len(tokens)
    /\ \A k \in DOMAIN errors : Cardinality(TokensOf(k)) = 1 /\ TokensOf(k) \subseteq ErrorTokens
    /\ ErrorTokens = UNION { TokensOf(k) : k \in DOMAIN errors }
    /\ Cardinality(ErrorTokens) = Len(errors)

\* FOO(( has a function error at FOO and an aggregate error at the last "(";
\* the "(" between them is left as it is
C25_Witness ==
  /\ Marked
  /\ text = << "F", "O", "O", "(", "(" >>
  /\ Len(errors) = 2
  /\ ErrorTokens = { 1, 3 }
  /\ classified[2] = Token(TOKEN_TYPES.PARENTHESIS, << "(" >>, 3, 4)

\* the handlers of setupMasterTableClickHandlers are listening
Handling == entry = "setupMasterTableClickHandlers"

\* at most one timer is pending, clickTimer is its handle, and it was armed by
\* the click that is the last entry of the trace, for that click's row and for
\* clickDelay after it
OneTimer ==
  /\ Cardinality(timers) <= 1
  /\ clickTimer = null <=> timers = {}
  /\ \A t \in timers :
       /\ t.id = clickTimer
       /\ trace # <<>>
       /\ trace[Len(trace)] = [ kind |-> "click", identifier |-> t.identifier,
                                at |-> t.due - clickDelay ]

\* every call of displayDetails comes right after a click, with no other event
\* between them, for that click's row and no sooner than clickDelay after it
AfterLoneClick ==
  \A i \in DOMAIN trace :
    trace[i].kind = "displayDetails" =>
      /\ i > 1
      /\ trace[i - 1].kind = "click"
      /\ trace[i - 1].identifier = trace[i].identifier
      /\ trace[i].at >= trace[i - 1].at + clickDelay

\* click, click, dblclick within clickDelay: addAndDisplayDetails is called once,
\* for the row of the dblclick, and displayDetails is not called before another
\* click arrives
ClickClickDblClick ==
  \A i \in DOMAIN trace :
    ( /\ i + 2 <= Len(trace)
      /\ trace[i].kind = "click"
      /\ trace[i + 1].kind = "click"
      /\ trace[i + 2].kind = "dblclick"
      /\ trace[i + 2].at - trace[i].at < clickDelay ) =>
      /\ i + 3 <= Len(trace)
      /\ trace[i + 3] = [ trace[i + 2] EXCEPT !.kind = "addAndDisplayDetails" ]
      /\ i + 4 <= Len(trace) =>
           trace[i + 4].kind \notin { "displayDetails", "addAndDisplayDetails" }
      /\ i + 3 = Len(trace) => timers = {}

\* C26: under every interleaving of click, dblclick, the passing of time and the
\* running of a timer, at most one single-click timer is pending; displayDetails
\* is called only when the timer of a click runs, no sooner than clickDelay
\* after that click and with no click or dblclick in between, for the clicked
\* row; click, click, dblclick within clickDelay calls addAndDisplayDetails once
\* and displayDetails not at all; and a pending timer does not stay pending: a
\* click that is followed by no other event gets its call of displayDetails.
C26_SingleClickTimer ==
  /\ [](Handling => OneTimer /\ AfterLoneClick /\ ClickClickDblClick)
  /\ (Handling /\ timers # {}) ~> (timers = {})

\* a lone click on the first row at time 0 with a delay of two ticks: the one
\* call of displayDetails, for that row, at time 2
C26_Witness ==
  /\ Handling
  /\ clickDelay = 2
  /\ trace = << [ kind |-> "click", identifier |-> "id1", at |-> 0 ],
                [ kind |-> "displayDetails", identifier |-> "id1", at |-> 2 ] >>
  /\ clickTimer = null

\* click, click, dblclick at one instant: one call of addAndDisplayDetails
C26_WitnessDouble ==
  /\ Handling
  /\ clickDelay = 1
  /\ now = MaxTime
  /\ trace = << [ kind |-> "click", identifier |-> "id1", at |-> 0 ],
                [ kind |-> "click", identifier |-> "id1", at |-> 0 ],
                [ kind |-> "dblclick", identifier |-> "id1", at |-> 0 ],
                [ kind |-> "addAndDisplayDetails", identifier |-> "id1", at |-> 0 ] >>
====
